---- MODULE Spec2Model ----
(***************************************************************************)
(* Category tree and technique catalogue of the Leterago backend.          *)
(*                                                                         *)
(* The persisted collections (categories, techniques), the blob directory  *)
(* and the last HTTP response are the state.  Every Express handler is one  *)
(* action when requests run one after another; SpecConc, SpecDelete,       *)
(* SpecRace and SpecEdit split handlers at their awaits, and SpecLogin      *)
(* follows login attempts on one account.                                   *)
(*                                                                         *)
(* Strings whose characters the code inspects (names, slugs, versions) are *)
(* sequences of one-character strings.                                     *)
(***************************************************************************)
EXTENDS Integers, Sequences, FiniteSets, TLC

VARIABLES
    cats,       \* Category collection: _id -> document
    nextCat,    \* next fresh Category _id (ObjectIds are never reused)
    techs,      \* Technique collection: _id -> document
    nextTech,   \* next fresh Technique _id
    files,      \* blob directory: the set of stored paths
    nextFile,   \* next fresh stored path
    res,        \* the request just served and the response sent for it
    reqs,       \* requests in flight, in the specifications that split handlers
    walk,       \* SpecConc: a getFullPath call in flight
    login       \* SpecLogin: a user document, the clock and the recent attempts

vars == <<cats, nextCat, techs, nextTech, files, nextFile, res, reqs, walk, login>>

----------------------------------------------------------------------------
(* Bounds of the model *)

MaxCats == 3
MaxTechs == 2
FewTechs == 1
MaxRevisions == 3
MaxFiles == 2

(* JS null / undefined for references and paths *)
NULL == 0
(* NaN, the result of Number() on a non-numeric string *)
NaN == 0 - 1

----------------------------------------------------------------------------
(* Users and the route middleware *)

Users == {"adm", "ed1", "ed2", "vw"}
Anonymous == "anon"
NoUser == "nobody"
Actors == Users \cup {Anonymous}

RoleAllAdmin(u) == "admin"

Role(u) ==
    CASE u = "adm" -> "admin"
      [] u = "ed1" -> "editor"
      [] u = "ed2" -> "editor"
      [] u = "vw"  -> "viewer"
      [] OTHER     -> "none"

roleHierarchy(r) ==
    CASE r = "viewer" -> 1
      [] r = "editor" -> 2
      [] r = "admin"  -> 3
      [] OTHER        -> 0

authenticateTokenOpen(actor) == 0

(* authenticateToken: 401 without a valid credential, else pass (0) *)
authenticateToken(actor) == IF actor \in Users THEN 0 ELSE 401

(* authorizeMinRole(minimumRole) after authenticateToken *)
authorizeMinRole(actor, minimumRole) ==
    IF authenticateToken(actor) # 0 THEN 401
    ELSE IF roleHierarchy(Role(actor)) < roleHierarchy(minimumRole) THEN 403
    ELSE 0

(* authorize(...allowedRoles) after authenticateToken *)
authorize(actor, allowedRoles) ==
    IF authenticateToken(actor) # 0 THEN 401
    ELSE IF Role(actor) \notin allowedRoles THEN 403
    ELSE 0

----------------------------------------------------------------------------
(* Strings *)

Has(p, f) == f \in DOMAIN p

Digits == <<"0", "1", "2", "3", "4", "5", "6", "7", "8", "9">>

IsDigit(c) == \E i \in 1..Len(Digits) : Digits[i] = c

DigitValue(c) == (CHOOSE i \in 1..Len(Digits) : Digits[i] = c) - 1

(* String(n) for a non-negative integer *)
RECURSIVE NumToStr(_)
NumToStr(n) ==
    IF n < 10 THEN <<Digits[n + 1]>>
    ELSE NumToStr(n \div 10) \o <<Digits[(n % 10) + 1]>>

(* String.prototype.trim *)
RECURSIVE trim(_)
trim(s) ==
    IF s = <<>> THEN s
    ELSE IF Head(s) = " " THEN trim(Tail(s))
    ELSE IF s[Len(s)] = " " THEN trim(SubSeq(s, 1, Len(s) - 1))
    ELSE s

LowerChar(c) ==
    CASE c = "A" -> "a"
      [] c = "B" -> "b"
      [] OTHER   -> c

(* String.prototype.toLowerCase *)
toLowerCase(s) == [i \in 1..Len(s) |-> LowerChar(s[i])]

(* the character class [a-z0-9] *)
IsSlugChar(c) == c \in {"a", "b"} \/ IsDigit(c)

(* .replace(/[^a-z0-9]+/g, '-'): every maximal run outside [a-z0-9] becomes one '-' *)
RECURSIVE ReplaceRuns(_, _)
ReplaceRuns(s, inRun) ==
    IF s = <<>> THEN <<>>
    ELSE IF IsSlugChar(Head(s)) THEN <<Head(s)>> \o ReplaceRuns(Tail(s), FALSE)
    ELSE IF inRun THEN ReplaceRuns(Tail(s), TRUE)
    ELSE <<"-">> \o ReplaceRuns(Tail(s), TRUE)

(* .replace(/(^-|-$)+/g, ''), on a string without two adjacent '-' *)
StripEdgeDashes(s) ==
    LET a == IF s # <<>> /\ Head(s) = "-" THEN Tail(s) ELSE s
    IN  IF a # <<>> /\ a[Len(a)] = "-" THEN SubSeq(a, 1, Len(a) - 1) ELSE a

(* baseSlug of the pre('save') hook *)
BaseSlug(name) == StripEdgeDashes(ReplaceRuns(toLowerCase(name), FALSE))

----------------------------------------------------------------------------
(* Category model *)

CatIds == DOMAIN cats

(* findOne({ slug: slug, _id: { $ne: this._id } }) finds a document *)
SlugTaken(cs, id, slug) == \E o \in DOMAIN cs : o # id /\ cs[o].slug = slug

(* the while loop of the slug hook: probe base, base-1, base-2, ... *)
RECURSIVE SlugProbe(_, _, _, _, _)
SlugProbe(cs, id, baseSlug, slug, counter) ==
    IF SlugTaken(cs, id, slug)
    THEN SlugProbe(cs, id, baseSlug, baseSlug \o <<"-">> \o NumToStr(counter), counter + 1)
    ELSE slug

GenerateSlugFromTwo(cs, id, name) ==
    SlugProbe(cs, id, BaseSlug(name), BaseSlug(name), 2)

GenerateSlug(cs, id, name) ==
    SlugProbe(cs, id, BaseSlug(name), BaseSlug(name), 1)

(* validateParent: walk the persisted parent chain from the proposed parent, *)
(* with visited = {this._id}; FALSE when the walk throws                      *)
RECURSIVE ParentWalk(_, _, _)
ParentWalk(cs, current, visited) ==
    IF current = NULL \/ current \notin DOMAIN cs THEN TRUE
    ELSE IF current \in visited THEN FALSE
    ELSE ParentWalk(cs, cs[current].parentCategory, visited \cup {current})

validateParentNoSelf(cs, id, parentCategory) ==
    IF parentCategory = NULL THEN TRUE
    ELSE ParentWalk(cs, parentCategory, {})

validateParentOneHop(cs, id, parentCategory) ==
    parentCategory # id

validateParent(cs, id, parentCategory) ==
    IF parentCategory = NULL THEN TRUE
    ELSE ParentWalk(cs, parentCategory, {id})

(* the unique index on slug rejects the write (E11000) *)
DuplicateKey(cs, id, slug) == \E o \in DOMAIN cs : o # id /\ cs[o].slug = slug

(* schema validation run by save(): name and description are required *)
CategoryValid(d) == d.name # <<>> /\ d.description # <<>>

SaveResult(ok, error, doc) == [ok |-> ok, error |-> error, doc |-> doc]

CategorySaveRawSlug(cs, id, d, nameModified, parentModified) ==
    IF ~CategoryValid(d) THEN SaveResult(FALSE, "ValidationError", d)
    ELSE IF parentModified /\ ~validateParent(cs, id, d.parentCategory)
    THEN SaveResult(FALSE, "referencia circular", d)
    ELSE SaveResult(TRUE, "",
            IF nameModified THEN [d EXCEPT !.slug = BaseSlug(d.name)] ELSE d)

(* category.save(): validation, the slug hook, the parent hook, the write *)
CategorySave(cs, id, d, nameModified, parentModified) ==
    IF ~CategoryValid(d) THEN SaveResult(FALSE, "ValidationError", d)
    ELSE
      LET withSlug == IF nameModified
                      THEN [d EXCEPT !.slug = GenerateSlug(cs, id, d.name)]
                      ELSE d
      IN  IF parentModified /\ ~validateParent(cs, id, withSlug.parentCategory)
          THEN SaveResult(FALSE, "referencia circular", withSlug)
          ELSE IF DuplicateKey(cs, id, withSlug.slug)
          THEN SaveResult(FALSE, "E11000", withSlug)
          ELSE SaveResult(TRUE, "", withSlug)

(* Category.countDocuments({ parentCategory: id }) *)
CountSubcategoriesNone(cs, id) == 0

CountSubcategories(cs, id) ==
    Cardinality({c \in DOMAIN cs : cs[c].parentCategory = id})

(* Technique.countDocuments({ category: id }) *)
CountTechniquesNone(ts, id) == 0

CountTechniques(ts, id) ==
    Cardinality({t \in DOMAIN ts : ts[t].category = id})

----------------------------------------------------------------------------
(* Responses *)

NoDeps == [kind |-> "none", n |-> 0]

Reply(op, actor, id, patch, status, error, deps) ==
    [op |-> op, actor |-> actor, id |-> id, patch |-> patch,
     status |-> status, error |-> error, deps |-> deps]

NoPatch == <<>>

(* a multipart request and its response: `parts` are the file fields it carried *)
PartsReply(op, actor, id, patch, uploads, status, error) ==
    [op |-> op, actor |-> actor, id |-> id, patch |-> patch, parts |-> uploads,
     status |-> status, error |-> error, deps |-> NoDeps]

Field(p, f, default) == IF Has(p, f) THEN p[f] ELSE default

----------------------------------------------------------------------------
(* Category handlers, each run to completion *)

(* POST /api/categories *)
CreateCategory(actor, body) ==
    /\ nextCat <= MaxCats
    /\ UNCHANGED <<techs, nextTech, files, nextFile, reqs, walk, login>>
    /\ LET gate == authorizeMinRole(actor, "editor")
           name == Field(body, "name", <<>>)
           description == Field(body, "description", <<>>)
           parentCategory == Field(body, "parentCategory", NULL)
           d == [name |-> trim(name), slug |-> <<>>,
                 description |-> trim(description),
                 parentCategory |-> parentCategory,
                 order |-> Field(body, "order", 0),
                 isActive |-> TRUE, createdBy |-> actor]
           s == CategorySave(cats, nextCat, d, TRUE, parentCategory # NULL)
           reject(status, error) ==
               /\ res' = Reply("createCategory", actor, NULL, body, status, error, NoDeps)
               /\ UNCHANGED <<cats, nextCat>>
       IN  IF gate # 0 THEN reject(gate, "route")
           ELSE IF name = <<>> \/ description = <<>>
           THEN reject(400, "Datos incompletos")
           ELSE IF parentCategory # NULL /\ parentCategory \notin DOMAIN cats
           THEN reject(400, "Categoria padre no encontrada")
           ELSE IF s.ok
           THEN /\ cats' = cats @@ (nextCat :> s.doc)
                /\ nextCat' = nextCat + 1
                /\ res' = Reply("createCategory", actor, nextCat, body, 201, "", NoDeps)
           ELSE IF s.error = "ValidationError"
           THEN reject(400, "Error de validacion")
           ELSE IF s.error = "E11000"
           THEN reject(400, "Categoria duplicada")
           ELSE reject(500, "Error interno del servidor")

AssignCategoryFieldsAnyRole(actor, old, patch) ==
    [old EXCEPT
       !.name = IF Has(patch, "name") THEN trim(patch.name) ELSE @,
       !.description = IF Has(patch, "description") THEN trim(patch.description) ELSE @,
       !.order = IF Has(patch, "order") THEN patch.order ELSE @,
       !.isActive = IF Has(patch, "isActive") THEN patch.isActive ELSE @]

(* the fields updateCategory assigns before it looks at parentCategory *)
AssignCategoryFields(actor, old, patch) ==
    [old EXCEPT
       !.name = IF Has(patch, "name") THEN trim(patch.name) ELSE @,
       !.description = IF Has(patch, "description") THEN trim(patch.description) ELSE @,
       !.order = IF Has(patch, "order") THEN patch.order ELSE @,
       !.isActive = IF Has(patch, "isActive") /\ Role(actor) = "admin"
                    THEN patch.isActive ELSE @]

(* PUT /api/categories/:id *)
UpdateCategory(actor, id, patch) ==
    /\ UNCHANGED <<nextCat, techs, nextTech, files, nextFile, reqs, walk, login>>
    /\ LET gate == authorizeMinRole(actor, "editor")
           reject(status, error) ==
               /\ res' = Reply("updateCategory", actor, id, patch, status, error, NoDeps)
               /\ UNCHANGED cats
       IN  IF gate # 0 THEN reject(gate, "route")
           ELSE IF id \notin DOMAIN cats
           THEN reject(404, "Categoria no encontrada")
           ELSE IF Role(actor) # "admin" /\ cats[id].createdBy # actor
           THEN reject(403, "Sin permisos")
           ELSE IF /\ Has(patch, "parentCategory")
                   /\ patch.parentCategory # NULL
                   /\ patch.parentCategory \notin DOMAIN cats
           THEN reject(400, "Categoria padre no encontrada")
           ELSE
             LET old == cats[id]
                 a == AssignCategoryFields(actor, old, patch)
                 d == IF Has(patch, "parentCategory")
                      THEN [a EXCEPT !.parentCategory = patch.parentCategory]
                      ELSE a
                 s == CategorySave(cats, id, d, d.name # old.name,
                                   d.parentCategory # old.parentCategory)
             IN  IF s.ok
                 THEN /\ cats' = [cats EXCEPT ![id] = s.doc]
                      /\ res' = Reply("updateCategory", actor, id, patch, 200, "", NoDeps)
                 ELSE IF s.error = "referencia circular"
                 THEN reject(400, "Referencia circular")
                 ELSE IF s.error = "ValidationError"
                 THEN reject(400, "Error de validacion")
                 ELSE reject(500, "Error interno del servidor")

(* DELETE /api/categories/:id *)
DeleteCategory(actor, id) ==
    /\ UNCHANGED <<nextCat, techs, nextTech, files, nextFile, reqs, walk, login>>
    /\ LET gate == authorize(actor, {"admin"})
           subcategories == CountSubcategories(cats, id)
           techniques == CountTechniques(techs, id)
           reject(status, error, deps) ==
               /\ res' = Reply("deleteCategory", actor, id, NoPatch, status, error, deps)
               /\ UNCHANGED cats
       IN  IF gate # 0 THEN reject(gate, "route", NoDeps)
           ELSE IF id \notin DOMAIN cats
           THEN reject(404, "Categoria no encontrada", NoDeps)
           ELSE IF Role(actor) # "admin"
           THEN reject(403, "Sin permisos", NoDeps)
           ELSE IF subcategories > 0
           THEN reject(400, "Categoria con dependencias",
                       [kind |-> "subcategories", n |-> subcategories])
           ELSE IF techniques > 0
           THEN reject(400, "Categoria con dependencias",
                       [kind |-> "techniques", n |-> techniques])
           ELSE /\ cats' = [c \in DOMAIN cats \ {id} |-> cats[c]]
                /\ res' = Reply("deleteCategory", actor, id, NoPatch, 200, "", NoDeps)

(* the model's characters in code-unit order, the order of a string sort *)
Alphabet ==
    <<" ", "!", "(", ")", "-", ".", "0", "1", "2", "3", "4", "5", "6", "7", "8", "9",
      "A", "B", "C", "N", "T", "U", "a", "b", "d", "e", "i", "o", "p", "x">>

CharRank(c) == CHOOSE i \in 1..Len(Alphabet) : Alphabet[i] = c

RECURSIVE StringLess(_, _)
StringLess(a, b) ==
    IF b = <<>> THEN FALSE
    ELSE IF a = <<>> THEN TRUE
    ELSE IF Head(a) # Head(b) THEN CharRank(Head(a)) < CharRank(Head(b))
    ELSE StringLess(Tail(a), Tail(b))

(* .sort({ order: 1, name: 1 }), documents equal in both in _id order *)
SortsBefore(cs, a, b) ==
    \/ cs[a].order < cs[b].order
    \/ cs[a].order = cs[b].order /\ StringLess(cs[a].name, cs[b].name)
    \/ cs[a].order = cs[b].order /\ cs[a].name = cs[b].name /\ a < b

RECURSIVE SortedIds(_, _)
SortedIds(cs, ids) ==
    IF ids = {} THEN <<>>
    ELSE LET first == CHOOSE a \in ids : \A b \in ids \ {a} : SortsBefore(cs, a, b)
         IN  <<first>> \o SortedIds(cs, ids \ {first})

RECURSIVE Keep(_, _)
Keep(seq, ids) ==
    IF seq = <<>> THEN <<>>
    ELSE IF Head(seq) \in ids THEN <<Head(seq)>> \o Keep(Tail(seq), ids)
    ELSE Keep(Tail(seq), ids)

(* Category.getHierarchy(): the active categories in sort order; one with a  *)
(* parent is pushed to the children of that parent's map entry when the map  *)
(* has one, one without a parent is pushed to roots; roots is returned       *)
getHierarchy(cs) ==
    LET active == {c \in DOMAIN cs : cs[c].isActive}
        categories == SortedIds(cs, active)
    IN  [roots |-> Keep(categories, {c \in active : cs[c].parentCategory = NULL}),
         children |-> [p \in active |->
                         Keep(categories, {c \in active : cs[c].parentCategory = p})]]

HierarchyReply(hierarchy) ==
    [op |-> "getCategoryHierarchy", actor |-> Anonymous, id |-> NULL, patch |-> NoPatch,
     status |-> 200, error |-> "", deps |-> NoDeps, hierarchy |-> hierarchy]

(* GET /api/categories/hierarchy *)
GetCategoryHierarchy ==
    /\ res' = HierarchyReply(getHierarchy(cats))
    /\ UNCHANGED <<cats, nextCat, techs, nextTech, files, nextFile, reqs, walk, login>>

----------------------------------------------------------------------------
(* Technique model *)

(* String.prototype.split('.') *)
RECURSIVE SplitDots(_, _)
SplitDots(s, part) ==
    IF s = <<>> THEN <<part>>
    ELSE IF Head(s) = "." THEN <<part>> \o SplitDots(Tail(s), <<>>)
    ELSE SplitDots(Tail(s), Append(part, Head(s)))

split(s) == SplitDots(s, <<>>)

(* Number(string): "" is 0, a digit string its decimal value, anything else NaN *)
RECURSIVE DecimalValue(_, _)
DecimalValue(s, acc) ==
    IF s = <<>> THEN acc
    ELSE DecimalValue(Tail(s), acc * 10 + DigitValue(Head(s)))

Number(s) ==
    LET t == trim(s)
    IN  IF \A i \in 1..Len(t) : IsDigit(t[i]) THEN DecimalValue(t, 0) ELSE NaN

(* String(number) *)
NumberToString(n) == IF n = NaN THEN <<"N", "a", "N">> ELSE NumToStr(n)

(* Array.prototype.join('.') of numbers *)
RECURSIVE join(_)
join(parts) ==
    IF parts = <<>> THEN <<>>
    ELSE IF Len(parts) = 1 THEN NumberToString(parts[1])
    ELSE NumberToString(parts[1]) \o <<".">> \o join(Tail(parts))

(* x++ on a number: NaN stays NaN *)
Increment(n) == IF n = NaN THEN NaN ELSE n + 1

DefaultVersion == <<"1", ".", "0">>

NextVersionDecimal(version) ==
    LET v == IF version = <<>> THEN DefaultVersion ELSE version
        parts == [i \in 1..Len(split(v)) |-> Number(split(v)[i])]
        padded == IF Len(parts) < 2 THEN Append(parts, 0) ELSE parts
    IN  IF padded[2] = 9
        THEN join([padded EXCEPT ![1] = Increment(@), ![2] = 0])
        ELSE join([padded EXCEPT ![2] = Increment(@)])

(* newVersion of addRevision: split, map(Number), pad to two parts, parts[1]++, join *)
NextVersion(version) ==
    LET v == IF version = <<>> THEN DefaultVersion ELSE version
        parts == [i \in 1..Len(split(v)) |-> Number(split(v)[i])]
        padded == IF Len(parts) < 2 THEN Append(parts, 0) ELSE parts
    IN  join([padded EXCEPT ![2] = Increment(@)])

(* technique.addRevision(changes, userId) *)
addRevision(t, changes, userId) ==
    LET newVersion == NextVersion(t.version)
    IN  [t EXCEPT
           !.revisionHistory = Append(@, [version |-> newVersion,
                                          changes |-> changes,
                                          changedBy |-> userId]),
           !.version = newVersion,
           !.lastModifiedBy = userId]

StatusEnum == {"Draft", "Review", "Approved", "Deprecated"}

(* the paths of techniqueSchema the model carries *)
TechniqueFields ==
    {"name", "description", "category", "mitreid", "image", "fileLocation", "tags",
     "version", "revisionHistory", "status", "createdBy", "lastModifiedBy"}

(* paths whose document value is an object (ObjectId, array): never === a body value *)
ObjectValuedFields ==
    {"category", "tags", "revisionHistory", "createdBy", "lastModifiedBy"}

(* schema validation run by technique.save() *)
TechniqueValid(d) ==
    /\ d.name # <<>>
    /\ d.description # <<>>
    /\ d.status \in StatusEnum

MitreidInUseNever(ts, id, mitreid) == FALSE

(* Technique.findOne({ mitreid, _id: { $ne: id } }) finds a document *)
MitreidInUse(ts, id, mitreid) ==
    \E o \in DOMAIN ts : o # id /\ ts[o].mitreid = mitreid

(* the sparse unique index on mitreid rejects the write *)
MitreidDuplicate(ts, id, mitreid) ==
    /\ mitreid # <<>>
    /\ MitreidInUse(ts, id, mitreid)

(* deleteFile(path): fs.unlink, its failure only logged *)
deleteFile(fs, path, unlinkOk) ==
    IF path # NULL /\ unlinkOk THEN fs \ {path} ELSE fs

(* multer's disk storage: one stored path per uploaded part *)
UploadPaths(uploads) ==
    IF uploads = {} THEN {}
    ELSE IF Cardinality(uploads) = 1 THEN {nextFile}
    ELSE {nextFile, nextFile + 1}

(* req.processedFiles[field].path: processUploadedFiles maps req.files[field], *)
(* an array, to an array, and an array has no path                            *)
ProcessedPath(uploads, field) == NULL

CleanupNothing(fs, uploads, unlinkOk) == fs

CleanupEverything(fs, uploads, unlinkOk) == {}

(* cleanupOnError's res.send and the handlers' catch blocks: unlink every upload *)
CleanupUploads(fs, uploads, unlinkOk) ==
    IF unlinkOk THEN fs \ UploadPaths(uploads) ELSE fs

----------------------------------------------------------------------------
(* Technique handlers, each run to completion.  `uploads` is the set of     *)
(* multipart file fields of the request, `unlinkOk` whether fs.unlink works. *)

(* POST /api/techniques *)
CreateTechnique(actor, body, uploads, unlinkOk) ==
    /\ nextTech <= MaxTechs
    /\ nextFile + Cardinality(uploads) <= MaxFiles + 1
    /\ UNCHANGED <<cats, nextCat, reqs, walk, login>>
    /\ LET gate == authorizeMinRole(actor, "editor")
           stored == files \cup UploadPaths(uploads)
           name == Field(body, "name", <<>>)
           description == Field(body, "description", <<>>)
           category == Field(body, "category", NULL)
           mitreid == Field(body, "mitreid", <<>>)
           d == [name |-> trim(name), description |-> trim(description),
                 category |-> category, mitreid |-> mitreid,
                 image |-> ProcessedPath(uploads, "image"),
                 fileLocation |-> ProcessedPath(uploads, "document"),
                 tags |-> Field(body, "tags", <<>>),
                 version |-> DefaultVersion, revisionHistory |-> <<>>,
                 status |-> "Draft", createdBy |-> actor, lastModifiedBy |-> NoUser]
           reject(status, error) ==
               /\ res' = PartsReply("createTechnique", actor, NULL, body, uploads, status, error)
               /\ files' = CleanupUploads(stored, uploads, unlinkOk)
               /\ nextFile' = nextFile + Cardinality(uploads)
               /\ UNCHANGED <<techs, nextTech>>
       IN  IF gate # 0
           THEN /\ res' = PartsReply("createTechnique", actor, NULL, body, uploads, gate, "route")
                /\ UNCHANGED <<techs, nextTech, files, nextFile>>
           ELSE IF name = <<>> \/ description = <<>> \/ category = NULL
           THEN reject(400, "Datos incompletos")
           ELSE IF category \notin DOMAIN cats
           THEN reject(400, "Categoria no encontrada")
           ELSE IF mitreid # <<>> /\ MitreidInUse(techs, nextTech, mitreid)
           THEN reject(400, "MITRE ID duplicado")
           ELSE IF ~TechniqueValid(d)
           THEN reject(400, "Error de validacion")
           ELSE IF MitreidDuplicate(techs, nextTech, d.mitreid)
           THEN reject(500, "Error interno del servidor")
           ELSE /\ techs' = techs @@ (nextTech :> d)
                /\ nextTech' = nextTech + 1
                /\ files' = stored
                /\ nextFile' = nextFile + Cardinality(uploads)
                /\ res' = PartsReply("createTechnique", actor, nextTech, body, uploads, 201, "")

(* technique[field] !== updateData[field] *)
FieldDiffers(t, data, uploads, f) ==
    IF f \notin TechniqueFields \/ f \in ObjectValuedFields THEN TRUE
    ELSE IF f = "image" /\ "image" \in uploads THEN TRUE
    ELSE IF f = "fileLocation" /\ "document" \in uploads THEN TRUE
    ELSE t[f] # data[f]

(* Object.assign(technique, updateData): every schema path the body names is set *)
AssignTechnique(t, data) ==
    [f \in DOMAIN t |->
        IF ~Has(data, f) THEN t[f]
        ELSE IF f = "name" THEN trim(data[f])
        ELSE data[f]]

(* updateData after the handler has added the uploaded parts' paths to it *)
WithUploads(patch, uploads) ==
    LET img == IF "image" \in uploads
               THEN ("image" :> ProcessedPath(uploads, "image")) ELSE <<>>
        doc == IF "document" \in uploads
               THEN ("fileLocation" :> ProcessedPath(uploads, "document")) ELSE <<>>
    IN  doc @@ img @@ patch

(* PUT /api/techniques/:id *)
UpdateTechnique(actor, id, patch, uploads, unlinkOk) ==
    /\ id \in DOMAIN techs => Len(techs[id].revisionHistory) < MaxRevisions
    /\ nextFile + Cardinality(uploads) <= MaxFiles + 1
    /\ UNCHANGED <<cats, nextCat, nextTech, reqs, walk, login>>
    /\ LET gate == authorizeMinRole(actor, "editor")
           stored == files \cup UploadPaths(uploads)
           reject(status, error) ==
               /\ res' = PartsReply("updateTechnique", actor, id, patch, uploads, status, error)
               /\ files' = CleanupUploads(stored, uploads, unlinkOk)
               /\ nextFile' = nextFile + Cardinality(uploads)
               /\ UNCHANGED techs
       IN  IF gate # 0
           THEN /\ res' = PartsReply("updateTechnique", actor, id, patch, uploads, gate, "route")
                /\ UNCHANGED <<techs, files, nextFile>>
           ELSE IF id \notin DOMAIN techs
           THEN reject(404, "Tecnica no encontrada")
           ELSE IF Role(actor) # "admin" /\ techs[id].createdBy # actor
           THEN reject(403, "Sin permisos")
           ELSE IF /\ Has(patch, "category") /\ patch.category # NULL
                   /\ techs[id].category = NULL
           THEN reject(500, "Error interno del servidor")
           ELSE IF /\ Has(patch, "category") /\ patch.category # NULL
                   /\ patch.category # techs[id].category
                   /\ patch.category \notin DOMAIN cats
           THEN reject(400, "Categoria no encontrada")
           ELSE IF /\ Has(patch, "mitreid") /\ patch.mitreid # <<>>
                   /\ patch.mitreid # techs[id].mitreid
                   /\ MitreidInUse(techs, id, patch.mitreid)
           THEN reject(400, "MITRE ID duplicado")
           ELSE
             LET technique == techs[id]
                 oldImage == technique.image
                 oldFile == technique.fileLocation
                 updateData == WithUploads(patch, uploads)
                 changes == {f \in DOMAIN updateData :
                                FieldDiffers(technique, updateData, uploads, f)}
                 assigned == [AssignTechnique(technique, updateData)
                                 EXCEPT !.lastModifiedBy = actor]
                 d == IF changes # {} THEN addRevision(assigned, changes, actor)
                      ELSE assigned
                 afterImage == IF "image" \in uploads
                               THEN deleteFile(stored, oldImage, unlinkOk) ELSE stored
                 afterFile == IF "document" \in uploads
                              THEN deleteFile(afterImage, oldFile, unlinkOk) ELSE afterImage
             IN  IF ~TechniqueValid(d) \/ MitreidDuplicate(techs, id, d.mitreid)
                 THEN reject(500, "Error interno del servidor")
                 ELSE /\ techs' = [techs EXCEPT ![id] = d]
                      /\ files' = afterFile
                      /\ nextFile' = nextFile + Cardinality(uploads)
                      /\ res' = PartsReply("updateTechnique", actor, id, patch, uploads, 200, "")

(* DELETE /api/techniques/:id *)
DeleteTechnique(actor, id, unlinkOk) ==
    /\ UNCHANGED <<cats, nextCat, nextTech, nextFile, reqs, walk, login>>
    /\ LET gate == authorizeMinRole(actor, "editor")
           reject(status, error) ==
               /\ res' = Reply("deleteTechnique", actor, id, NoPatch, status, error, NoDeps)
               /\ UNCHANGED <<techs, files>>
       IN  IF gate # 0 THEN reject(gate, "route")
           ELSE IF id \notin DOMAIN techs
           THEN reject(404, "Tecnica no encontrada")
           ELSE IF Role(actor) # "admin" /\ techs[id].createdBy # actor
           THEN reject(403, "Sin permisos")
           ELSE /\ files' = deleteFile(deleteFile(files, techs[id].image, unlinkOk),
                                       techs[id].fileLocation, unlinkOk)
                /\ techs' = [t \in DOMAIN techs \ {id} |-> techs[t]]
                /\ res' = Reply("deleteTechnique", actor, id, NoPatch, 200, "", NoDeps)

CopySuffix == <<" ", "(", "C", "o", "p", "i", "a", ")">>

duplicateKeepStatus(t, userId) ==
    [name |-> trim(t.name \o CopySuffix), description |-> t.description,
     category |-> t.category, mitreid |-> <<>>, image |-> NULL, fileLocation |-> NULL,
     tags |-> t.tags, version |-> DefaultVersion, revisionHistory |-> <<>>,
     status |-> t.status, createdBy |-> userId, lastModifiedBy |-> NoUser]

(* technique.duplicate(userId): a new document from the content fields, the  *)
(* schema defaults for every path the constructor is not given               *)
duplicate(t, userId) ==
    [name |-> trim(t.name \o CopySuffix), description |-> t.description,
     category |-> t.category, mitreid |-> <<>>, image |-> NULL, fileLocation |-> NULL,
     tags |-> t.tags, version |-> DefaultVersion, revisionHistory |-> <<>>,
     status |-> "Draft", createdBy |-> userId, lastModifiedBy |-> NoUser]

(* POST /api/techniques/:id/duplicate *)
DuplicateTechnique(actor, id) ==
    /\ nextTech <= MaxTechs
    /\ UNCHANGED <<cats, nextCat, files, nextFile, reqs, walk, login>>
    /\ LET gate == authorizeMinRole(actor, "editor")
           reject(status, error) ==
               /\ res' = Reply("duplicateTechnique", actor, id, NoPatch, status, error, NoDeps)
               /\ UNCHANGED <<techs, nextTech>>
       IN  IF gate # 0 THEN reject(gate, "route")
           ELSE IF id \notin DOMAIN techs
           THEN reject(404, "Tecnica no encontrada")
           ELSE
             LET d == duplicate(techs[id], actor)
             IN  IF ~TechniqueValid(d) \/ MitreidDuplicate(techs, nextTech, d.mitreid)
                 THEN reject(500, "Error interno del servidor")
                 ELSE /\ techs' = techs @@ (nextTech :> d)
                      /\ nextTech' = nextTech + 1
                      /\ res' = Reply("duplicateTechnique", actor, id, NoPatch,
                                      201, "", NoDeps)

----------------------------------------------------------------------------
(* Initial state: empty collections, nothing in flight *)

Requests == {"r1", "r2"}

(* an updateCategory request between its awaits: `loaded` is the parent of the *)
(* document findById(id) returned, `current` the document the parent walk     *)
(* holds, with the parent it had when it was read                             *)
IdleRequest ==
    [pc |-> "idle", actor |-> Anonymous, id |-> NULL, parentCategory |-> NULL,
     loaded |-> NULL, current |-> NULL, currentParent |-> NULL, visited |-> {}]

(* a getFullPath call between its awaits: `current` as above, `visits` the     *)
(* documents visited so far, `stable` whether no write was committed since it *)
(* started                                                                    *)
IdleWalk ==
    [pc |-> "idle", current |-> NULL, currentParent |-> NULL, visits |-> 0,
     stable |-> TRUE]

NoResponse == Reply("none", Anonymous, NULL, NoPatch, 0, "", NoDeps)

(* a user document as register leaves it: the schema defaults of            *)
(* loginAttempts, lockUntil and isActive                                    *)
NewUser == [loginAttempts |-> 0, lockUntil |-> NULL, isActive |-> TRUE]

(* `now` is Date.now() in units of the model's clock, `run` the latest        *)
(* consecutive attempts with a wrong password                               *)
InitialLogin == [user |-> NewUser, now |-> 1, run |-> <<>>]

Init ==
    /\ cats = <<>>
    /\ nextCat = 1
    /\ techs = <<>>
    /\ nextTech = 1
    /\ files = {}
    /\ nextFile = 1
    /\ res = NoResponse
    /\ reqs = [r \in Requests |-> IdleRequest]
    /\ walk = IdleWalk
    /\ login = InitialLogin

----------------------------------------------------------------------------
(* Spec: the category tree and the techniques that reference it, one request *)
(* at a time                                                                 *)

SomeName == <<"A">>
SomeText == <<"d">>

TreeCategoryBodies ==
    {[name |-> SomeName, description |-> SomeText]}
    \cup {[name |-> SomeName, description |-> SomeText, parentCategory |-> p] :
             p \in 1..MaxCats}

TreeCategoryPatches == {[parentCategory |-> p] : p \in 0..MaxCats}

TreeTechniqueBodies ==
    {[name |-> SomeName, description |-> SomeText, category |-> c] : c \in 1..MaxCats}

TreeActors == {"adm", "ed1"}

Next ==
    \/ \E actor \in TreeActors, body \in TreeCategoryBodies : CreateCategory(actor, body)
    \/ \E actor \in TreeActors, id \in 1..MaxCats, patch \in TreeCategoryPatches :
          UpdateCategory(actor, id, patch)
    \/ \E actor \in TreeActors, id \in 1..MaxCats : DeleteCategory(actor, id)
    \/ \E actor \in TreeActors, body \in TreeTechniqueBodies :
          nextTech <= FewTechs /\ CreateTechnique(actor, body, {}, TRUE)
    \/ \E actor \in TreeActors, id \in 1..MaxTechs : DeleteTechnique(actor, id, TRUE)

Spec == Init /\ [][Next]_vars


----------------------------------------------------------------------------
(* The parent relation, stated without the code's walk *)

ParentOf(cs, c) == IF c \in DOMAIN cs THEN cs[c].parentCategory ELSE NULL

(* the categories reached from c by following parentCategory 1..k times *)
RECURSIVE Up(_, _, _)
Up(cs, c, k) ==
    IF k = 0 \/ ParentOf(cs, c) = NULL THEN {}
    ELSE {ParentOf(cs, c)} \cup Up(cs, ParentOf(cs, c), k - 1)

Ancestors(cs, c) == Up(cs, c, Cardinality(DOMAIN cs))

Acyclic(cs) == \A c \in DOMAIN cs : c \notin Ancestors(cs, c)

Children(cs, c) == {x \in DOMAIN cs : cs[x].parentCategory = c}

Referencing(ts, c) == {t \in DOMAIN ts : ts[t].category = c}

MayEdit(actor, doc) == Role(actor) = "admin" \/ doc.createdBy = actor

----------------------------------------------------------------------------
(* C1: after any sequence of completed category Create, Update and Delete   *)
(* operations no category is reachable from itself by following             *)
(* parentCategory one or more times.                                        *)
C1_NoCycle == Acyclic(cats)

(* a reparenting under an existing parent was committed and left a chain of *)
(* depth two                                                                *)
C1_Witness ==
    /\ res.op = "updateCategory" /\ res.status = 200
    /\ Has(res.patch, "parentCategory") /\ res.patch.parentCategory # NULL
    /\ \E c \in DOMAIN cats : Cardinality(Ancestors(cats, c)) = 2

(* C3: on an acyclic forest an Update by a permitted caller that sets C's    *)
(* parent to an existing category P is rejected with the circular-reference *)
(* error exactly when P is C or C is an ancestor of P, and is committed in  *)
(* every other case.                                                        *)
C3_RejectedIffCircular ==
    [][ ( /\ res'.op = "updateCategory"
          /\ Has(res'.patch, "parentCategory")
          /\ res'.id \in DOMAIN cats
          /\ res'.patch.parentCategory \in DOMAIN cats
          /\ MayEdit(res'.actor, cats[res'.id])
          /\ Acyclic(cats) )
        => LET C == res'.id
               P == res'.patch.parentCategory
               circular == P = C \/ C \in Ancestors(cats, P)
           IN  /\ (res'.status = 400 /\ res'.error = "Referencia circular") <=> circular
               /\ circular => cats' = cats
               /\ ~circular => /\ res'.status = 200
                               /\ cats' = [cats EXCEPT ![C].parentCategory = P] ]_vars

(* an Update was rejected because C is a proper ancestor of P *)
C3_Witness ==
    /\ res.op = "updateCategory" /\ res.error = "Referencia circular"
    /\ res.patch.parentCategory # res.id
    /\ res.id \in Ancestors(cats, res.patch.parentCategory)

(* C5: Delete of a category that has a child category or a referencing      *)
(* technique changes neither the categories nor the techniques, and for the *)
(* admin the route lets through it answers 400 "Categoria con dependencias" *)
(* with the count of the dependents it found.                               *)
C5_DeleteBlockedByDependents ==
    [][ ( /\ res'.op = "deleteCategory"
          /\ res'.id \in DOMAIN cats
          /\ Children(cats, res'.id) \cup Referencing(techs, res'.id) # {} )
        => /\ cats' = cats /\ techs' = techs /\ files' = files
           /\ Role(res'.actor) = "admin" =>
                /\ res'.status = 400
                /\ res'.error = "Categoria con dependencias"
                /\ res'.deps =
                     IF Children(cats, res'.id) # {}
                     THEN [kind |-> "subcategories",
                           n |-> Cardinality(Children(cats, res'.id))]
                     ELSE [kind |-> "techniques",
                           n |-> Cardinality(Referencing(techs, res'.id))] ]_vars

(* a Delete was refused for a category with two children *)
C5_Witness ==
    /\ res.op = "deleteCategory" /\ res.status = 400
    /\ res.deps = [kind |-> "subcategories", n |-> 2]
    /\ Cardinality(Children(cats, res.id)) = 2

(* C6: no step removes a category while a technique that references it       *)
(* exists, and an admin's Delete of a category that has no child and no     *)
(* referencing technique succeeds and removes it.                           *)
C6_DeleteAfterDependentsGone ==
    [][ /\ \A c \in DOMAIN cats :
              (\E t \in DOMAIN techs \cap DOMAIN techs' :
                  techs[t].category = c /\ techs'[t].category = c)
              => c \in DOMAIN cats'
        /\ ( /\ res'.op = "deleteCategory"
             /\ Role(res'.actor) = "admin"
             /\ res'.id \in DOMAIN cats
             /\ Children(cats, res'.id) = {}
             /\ Referencing(techs, res'.id) = {} )
           => res'.status = 200 /\ res'.id \notin DOMAIN cats' ]_vars

(* the only category ever created was deleted after the only technique ever *)
(* created, which referenced it, had been deleted                           *)
C6_Witness ==
    /\ res.op = "deleteCategory" /\ res.status = 200
    /\ nextCat = 2 /\ nextTech = 2
    /\ cats = <<>> /\ techs = <<>>


----------------------------------------------------------------------------
(* SpecSlug: creations, renames and deletions by the admin, over names that  *)
(* share a base slug, collide with a suffixed slug, have an empty base slug *)
(* or are blank                                                             *)

SlugNames ==
    { <<"A">>,
      <<"a">>,
      <<"a", " ", "!", "1">>,
      <<" ", "!", "a", "-", "!">>,
      <<"!">>,
      <<" ">> }

SlugCategoryBodies == {[name |-> n, description |-> SomeText] : n \in SlugNames}

SlugCategoryPatches == {[name |-> n] : n \in SlugNames}

NextSlug ==
    \/ \E body \in SlugCategoryBodies : CreateCategory("adm", body)
    \/ \E id \in 1..MaxCats, patch \in SlugCategoryPatches :
          UpdateCategory("adm", id, patch)
    \/ \E id \in 1..MaxCats : DeleteCategory("adm", id)

SpecSlug == Init /\ [][NextSlug]_vars

(* the maximal runs of letters and digits of a string, in order *)
RECURSIVE Tokens(_, _)
Tokens(s, token) ==
    IF s = <<>> THEN (IF token = <<>> THEN <<>> ELSE <<token>>)
    ELSE IF Head(s) \in {"a", "b", "0", "1", "2", "3", "4", "5", "6", "7", "8", "9"}
    THEN Tokens(Tail(s), Append(token, Head(s)))
    ELSE (IF token = <<>> THEN <<>> ELSE <<token>>) \o Tokens(Tail(s), <<>>)

RECURSIVE Dashed(_)
Dashed(tokens) ==
    IF tokens = <<>> THEN <<>>
    ELSE IF Len(tokens) = 1 THEN tokens[1]
    ELSE tokens[1] \o <<"-">> \o Dashed(Tail(tokens))

(* the base slug as the claim words it: the lower-cased name's runs of      *)
(* letters and digits, joined by single '-'                                 *)
ExpectedBase(name) ==
    Dashed(Tokens([i \in 1..Len(name) |->
                      IF name[i] = "A" THEN "a" ELSE IF name[i] = "B" THEN "b" ELSE name[i]],
                  <<>>))

Suffixed(base, k) == base \o <<"-">> \o NumToStr(k)

(* base when no other category holds it, else base-k for the least free k >= 1 *)
ExpectedSlug(cs, id, name) ==
    LET held == {cs[o].slug : o \in DOMAIN cs \ {id}}
        base == ExpectedBase(name)
        k == CHOOSE k \in 1..(Cardinality(held) + 1) :
                /\ Suffixed(base, k) \notin held
                /\ \A j \in 1..(k - 1) : Suffixed(base, j) \in held
    IN  IF base \notin held THEN base ELSE Suffixed(base, k)

(* C7: after any sequence of category Create and rename operations no two   *)
(* categories have the same slug.                                           *)
C7_SlugUnique ==
    \A c1, c2 \in DOMAIN cats : c1 # c2 => cats[c1].slug # cats[c2].slug

(* three categories whose names have the same base slug *)
C7_Witness ==
    /\ Cardinality(DOMAIN cats) = 3
    /\ \A c \in DOMAIN cats : BaseSlug(cats[c].name) = <<"a">>

(* C8: a successful Create, or a successful Update that changes the name,    *)
(* stores the base slug when no other category holds it and otherwise       *)
(* base-k for the smallest k >= 1 that no other category holds.             *)
C8_SlugIsBaseOrLeastSuffix ==
    [][ /\ (res'.op = "createCategory" /\ res'.status = 201)
           => cats'[res'.id].slug = ExpectedSlug(cats, res'.id, trim(res'.patch.name))
        /\ ( /\ res'.op = "updateCategory" /\ res'.status = 200
             /\ Has(res'.patch, "name")
             /\ trim(res'.patch.name) # cats[res'.id].name )
           => cats'[res'.id].slug = ExpectedSlug(cats, res'.id, trim(res'.patch.name)) ]_vars

(* the second of two categories created with the same name got base-1 *)
C8_Witness ==
    /\ res.op = "createCategory" /\ res.status = 201 /\ res.id = 2
    /\ 1 \in DOMAIN cats /\ cats[1].name = cats[2].name
    /\ cats[1].slug = <<"a">>
    /\ cats[2].slug = <<"a", "-", "1">>


----------------------------------------------------------------------------
(* SpecTech: one category exists (created by the admin); techniques are      *)
(* created, updated and deleted one request at a time                       *)

InitTech ==
    /\ cats = (1 :> [name |-> SomeName, slug |-> <<"a">>, description |-> SomeText,
                     parentCategory |-> NULL, order |-> 0, isActive |-> TRUE,
                     createdBy |-> "adm"])
    /\ nextCat = 2
    /\ techs = <<>>
    /\ nextTech = 1
    /\ files = {}
    /\ nextFile = 1
    /\ res = NoResponse
    /\ reqs = [r \in Requests |-> IdleRequest]
    /\ walk = IdleWalk
    /\ login = InitialLogin

TechActors == {"adm", "ed1"}

TechBodies ==
    { [name |-> SomeName, description |-> SomeText, category |-> 1],
      [name |-> SomeName, description |-> SomeText, category |-> 2],
      [name |-> SomeName, description |-> SomeText] }

TechPatches ==
    { [description |-> <<"e">>],
      [description |-> SomeText],
      [description |-> <<>>],
      [name |-> <<"B">>, description |-> <<"e">>],
      [status |-> "Review"],
      [version |-> <<"1", ".", "8">>],
      [version |-> <<"1", ".", "0">>] }

NextTech ==
    \/ \E actor \in TechActors, body \in TechBodies :
          nextTech <= FewTechs /\ CreateTechnique(actor, body, {}, TRUE)
    \/ \E actor \in TechActors, id \in 1..MaxTechs, patch \in TechPatches :
          UpdateTechnique(actor, id, patch, {}, TRUE)
    \/ \E actor \in TechActors, id \in 1..MaxTechs : DeleteTechnique(actor, id, TRUE)

SpecTech == InitTech /\ [][NextTech]_vars


----------------------------------------------------------------------------
(* Versions read as dotted integers, stated without the code's parsing *)

DigitOf(c) ==
    CASE c = "0" -> 0 [] c = "1" -> 1 [] c = "2" -> 2 [] c = "3" -> 3 [] c = "4" -> 4
      [] c = "5" -> 5 [] c = "6" -> 6 [] c = "7" -> 7 [] c = "8" -> 8 [] c = "9" -> 9

IsNumeral(s) ==
    /\ s # <<>>
    /\ \A i \in 1..Len(s) : s[i] \in {"0", "1", "2", "3", "4", "5", "6", "7", "8", "9"}

RECURSIVE IntOf(_)
IntOf(s) ==
    IF s = <<>> THEN 0
    ELSE IntOf(SubSeq(s, 1, Len(s) - 1)) * 10 + DigitOf(s[Len(s)])

DotPositions(v) == {i \in 1..Len(v) : v[i] = "."}

(* v is M.N: two numerals around a single dot *)
IsMajorMinor(v) ==
    /\ Cardinality(DotPositions(v)) = 1
    /\ LET p == CHOOSE i \in DotPositions(v) : TRUE
       IN  IsNumeral(SubSeq(v, 1, p - 1)) /\ IsNumeral(SubSeq(v, p + 1, Len(v)))

MajorOf(v) == IntOf(SubSeq(v, 1, (CHOOSE i \in DotPositions(v) : TRUE) - 1))

MinorOf(v) == IntOf(SubSeq(v, (CHOOSE i \in DotPositions(v) : TRUE) + 1, Len(v)))

(* the components of a version, each an integer or NaN *)
Components(v) == [i \in 1..Len(split(v)) |-> Number(split(v)[i])]

RECURSIVE LexLess(_, _)
LexLess(a, b) ==
    IF a = <<>> THEN b # <<>>
    ELSE IF b = <<>> THEN FALSE
    ELSE IF a[1] < b[1] THEN TRUE
    ELSE IF a[1] > b[1] THEN FALSE
    ELSE LexLess(Tail(a), Tail(b))

(* a < b with the dotted components compared as integers *)
VersionLess(a, b) ==
    /\ \A i \in 1..Len(Components(a)) : Components(a)[i] # NaN
    /\ \A i \in 1..Len(Components(b)) : Components(b)[i] # NaN
    /\ LexLess(Components(a), Components(b))

(* C9: a successful technique Update whose patch holds only `description`,    *)
(* with a value different from the current one, appends exactly one revision *)
(* entry and takes the version from M.N to M.(N+1), the components being     *)
(* integers ("1.9" becomes "1.10").                                          *)
C9_DescriptionOnlyUpdate ==
    [][ ( /\ res'.op = "updateTechnique" /\ res'.status = 200
          /\ DOMAIN res'.patch = {"description"}
          /\ res'.patch.description # techs[res'.id].description
          /\ IsMajorMinor(techs[res'.id].version) )
        => LET old == techs[res'.id]
               new == techs'[res'.id]
               expected == NumToStr(MajorOf(old.version)) \o <<".">>
                              \o NumToStr(MinorOf(old.version) + 1)
           IN  /\ Len(new.revisionHistory) = Len(old.revisionHistory) + 1
               /\ SubSeq(new.revisionHistory, 1, Len(old.revisionHistory))
                     = old.revisionHistory
               /\ new.version = expected
               /\ new.revisionHistory[Len(new.revisionHistory)].version = expected
               /\ new.description = res'.patch.description ]_vars

(* a description-only Update took the version from 1.9 to 1.10 *)
C9_Witness ==
    /\ res.op = "updateTechnique" /\ res.status = 200
    /\ DOMAIN res.patch = {"description"}
    /\ res.id \in DOMAIN techs
    /\ techs[res.id].version = <<"1", ".", "1", "0">>
    /\ Len(techs[res.id].revisionHistory) = 2
    /\ techs[res.id].revisionHistory[1].version = <<"1", ".", "9">>

(* C10: every technique Update that appends a revision entry leaves the      *)
(* version strictly greater than it was before the Update.                   *)
C10_VersionStrictlyIncreases ==
    [][ ( /\ res'.op = "updateTechnique" /\ res'.status = 200
          /\ res'.id \in DOMAIN techs
          /\ Len(techs'[res'.id].revisionHistory) > Len(techs[res'.id].revisionHistory) )
        => VersionLess(techs[res'.id].version, techs'[res'.id].version) ]_vars


(* C21: technique Create with a name and a description and no category      *)
(* succeeds and persists a technique without a category reference; as far    *)
(* as the category goes, only a supplied category that does not exist makes  *)
(* a Create fail with a validation error.                                    *)
C21_CreateWithoutCategory ==
    [][ ( /\ res'.op = "createTechnique"
          /\ authorizeMinRole(res'.actor, "editor") = 0
          /\ Field(res'.patch, "name", <<>>) # <<>>
          /\ Field(res'.patch, "description", <<>>) # <<>> )
        => /\ ~Has(res'.patch, "category")
              => /\ res'.status = 201
                 /\ res'.id \in DOMAIN techs' \ DOMAIN techs
                 /\ techs'[res'.id].category = NULL
           /\ res'.status = 400
              => Has(res'.patch, "category") /\ res'.patch.category \notin DOMAIN cats ]_vars

----------------------------------------------------------------------------
(* SpecHist: updates whose patch may name revisionHistory itself; an update  *)
(* is followed while the version's minor component is below MaxRevisions     *)

HistPatches ==
    { [description |-> <<"e">>],
      [description |-> SomeText],
      [revisionHistory |-> <<>>] }

NextHist ==
    \/ \E actor \in TechActors :
          /\ nextTech <= FewTechs
          /\ CreateTechnique(actor, [name |-> SomeName, description |-> SomeText,
                                     category |-> 1], {}, TRUE)
    \/ \E actor \in TechActors, id \in 1..MaxTechs, patch \in HistPatches :
          /\ id \in DOMAIN techs =>
                IsMajorMinor(techs[id].version) /\ MinorOf(techs[id].version) < MaxRevisions
          /\ UpdateTechnique(actor, id, patch, {}, TRUE)
    \/ \E actor \in TechActors, id \in 1..MaxTechs : DeleteTechnique(actor, id, TRUE)

SpecHist == InitTech /\ [][NextHist]_vars

IsPrefix(a, b) == Len(a) <= Len(b) /\ SubSeq(b, 1, Len(a)) = a

(* C11: a technique's revision history is append-only: across every step,    *)
(* whatever fields an accepted Update's patch names, the history a technique *)
(* had before the step is a prefix of the history it has after it, for every *)
(* technique the step does not delete.                                       *)
C11_HistoryAppendOnly ==
    [][ \A t \in DOMAIN techs \cap DOMAIN techs' :
           IsPrefix(techs[t].revisionHistory, techs'[t].revisionHistory) ]_vars

----------------------------------------------------------------------------
(* SpecDup: techniques with reference codes, created, updated, duplicated    *)
(* and deleted one request at a time; an update is followed while the        *)
(* technique has fewer than FewRevisions revisions                           *)

FewRevisions == 1

CodeOne == <<"T">>
CodeTwo == <<"U">>

DupBodies ==
    { [name |-> SomeName, description |-> SomeText, category |-> 1],
      [name |-> SomeName, description |-> SomeText, category |-> 1, mitreid |-> CodeOne],
      [name |-> SomeName, description |-> SomeText, category |-> 1, mitreid |-> CodeTwo] }

DupPatches ==
    { [mitreid |-> CodeOne],
      [mitreid |-> CodeTwo],
      [status |-> "Review", tags |-> <<"x">>, image |-> 1] }

NextDup ==
    \/ \E body \in DupBodies : CreateTechnique("ed1", body, {}, TRUE)
    \/ \E id \in 1..MaxTechs, patch \in DupPatches :
          /\ id \in DOMAIN techs => Len(techs[id].revisionHistory) < FewRevisions
          /\ UpdateTechnique("ed1", id, patch, {}, TRUE)
    \/ \E actor \in TechActors, id \in 1..MaxTechs : DuplicateTechnique(actor, id)
    \/ \E id \in 1..MaxTechs : DeleteTechnique("adm", id, TRUE)

SpecDup == InitTech /\ [][NextDup]_vars

C14_MitreidUnique ==
    \A a \in DOMAIN techs, b \in DOMAIN techs :
        (a # b /\ techs[a].mitreid # <<>>) => techs[a].mitreid # techs[b].mitreid

(* two techniques carry codes and a request that would have given one of     *)
(* them the other's code was just refused                                    *)
C14_Witness ==
    /\ Cardinality(DOMAIN techs) = 2
    /\ \A t \in DOMAIN techs : techs[t].mitreid # <<>>
    /\ res.op = "updateTechnique"
    /\ res.status = 400
    /\ res.error = "MITRE ID duplicado"

----------------------------------------------------------------------------
(* SpecFiles: technique requests that carry file parts, one at a time, with  *)
(* a working fs.unlink                                                       *)

FileBodies ==
    { [name |-> SomeName, description |-> SomeText, category |-> 1],
      [name |-> SomeName, description |-> SomeText, category |-> 1, mitreid |-> CodeOne],
      [name |-> SomeName, category |-> 1],
      [name |-> SomeName, description |-> SomeText, category |-> 2],
      [name |-> <<" ">>, description |-> SomeText, category |-> 1] }

FilePatches ==
    { NoPatch,
      [image |-> 1],
      [status |-> "Bad"] }

FileParts == { {}, {"image"}, {"image", "document"} }

NextFiles ==
    \/ \E body \in FileBodies, uploads \in FileParts :
          CreateTechnique("ed1", body, uploads, TRUE)
    \/ \E id \in 1..MaxTechs, patch \in FilePatches, uploads \in FileParts :
          UpdateTechnique("ed1", id, patch, uploads, TRUE)
    \/ \E id \in 1..MaxTechs : DeleteTechnique("ed1", id, TRUE)

SpecFiles == InitTech /\ [][NextFiles]_vars

(* the paths written for the request served by this step *)
WrittenNow == nextFile .. (nextFile' - 1)

(* C13: whenever technique Create fails (missing name or description, a      *)
(* category that does not exist, a reference code already in use, or a       *)
(* failing save) no technique record is added and every blob written for     *)
(* that call is released.                                                    *)
C13_FailedCreateLeavesNothing ==
    [][ (res'.op = "createTechnique" /\ res'.status # 201) =>
          /\ techs' = techs
          /\ nextTech' = nextTech
          /\ files' \cap WrittenNow = {}
          /\ files' = files ]_vars

(* a Create that carried an image part was refused for a reference code      *)
(* already in use: the blob it wrote is gone, an earlier blob is still stored *)
C13_Witness ==
    /\ res.op = "createTechnique"
    /\ res.status = 400
    /\ res.error = "MITRE ID duplicado"
    /\ res.parts = {"image"}
    /\ files # {}
    /\ nextFile \notin files
    /\ (nextFile - 1) \notin files

(* C15: in a technique Update that carries a file part, a blob the technique *)
(* referenced before is released only when the write has succeeded; when the *)
(* write fails the technique is unchanged, the blob it references is still   *)
(* stored, and every blob written for this call is released.                 *)
C15_ReplaceReleasesAfterWrite ==
    [][ (res'.op = "updateTechnique" /\ res'.parts # {} /\ res'.id \in DOMAIN techs) =>
          LET old == {techs[res'.id].image, techs[res'.id].fileLocation} \cap files
          IN  /\ (old \ files' # {}) => res'.status = 200
              /\ res'.status # 200 =>
                    /\ techs' = techs
                    /\ old \subseteq files'
                    /\ files' \cap WrittenNow = {} ]_vars

(* an Update carrying an image part failed at the write while the technique  *)
(* references a stored image                                                 *)
C15_Witness ==
    /\ res.op = "updateTechnique"
    /\ res.status = 500
    /\ "image" \in res.parts
    /\ res.id \in DOMAIN techs
    /\ techs[res.id].image \in files
    /\ (nextFile - 1) \notin files

(* C16: after a successful technique Create or Update that carries an image  *)
(* part, the technique's image path is the stored path of that upload, so    *)
(* the technique references the newly stored blob.                           *)
C16_UploadIsReferenced ==
    [][ ( /\ res'.op \in {"createTechnique", "updateTechnique"}
          /\ res'.status \in {200, 201}
          /\ "image" \in res'.parts )
        => LET t == IF res'.op = "createTechnique" THEN nextTech ELSE res'.id
           IN  /\ techs'[t].image \in WrittenNow
               /\ techs'[t].image \in files' ]_vars

----------------------------------------------------------------------------
(* SpecPerm: every write route called by every kind of caller.  It starts    *)
(* from a category and a technique that editor ed1 created, the technique    *)
(* with one revision and an image path that names a stored blob; a          *)
(* technique is updated while it has at most FewRevisions revisions.         *)

OwnedTechnique ==
    [name |-> SomeName, description |-> SomeText, category |-> 1, mitreid |-> <<>>,
     image |-> 1, fileLocation |-> NULL, tags |-> <<>>,
     version |-> <<"1", ".", "1">>,
     revisionHistory |-> << [version |-> <<"1", ".", "1">>, changes |-> {"image"},
                             changedBy |-> "ed1"] >>,
     status |-> "Draft", createdBy |-> "ed1", lastModifiedBy |-> "ed1"]

InitPerm ==
    /\ cats = (1 :> [name |-> SomeName, slug |-> <<"a">>, description |-> SomeText,
                     parentCategory |-> NULL, order |-> 0, isActive |-> TRUE,
                     createdBy |-> "ed1"])
    /\ nextCat = 2
    /\ techs = (1 :> OwnedTechnique)
    /\ nextTech = 2
    /\ files = {1}
    /\ nextFile = 2
    /\ res = NoResponse
    /\ reqs = [r \in Requests |-> IdleRequest]
    /\ walk = IdleWalk
    /\ login = InitialLogin

PermCategoryPatches == { [description |-> <<"e">>, isActive |-> FALSE] }

(* bodies that a permitted caller's Create refuses for a missing description *)
NextPerm ==
    \/ \E actor \in Actors : CreateCategory(actor, [name |-> SomeName])
    \/ \E actor \in Actors, id \in 1..nextCat, patch \in PermCategoryPatches :
          UpdateCategory(actor, id, patch)
    \/ \E actor \in Actors, id \in 1..nextCat : DeleteCategory(actor, id)
    \/ \E actor \in Actors :
          CreateTechnique(actor, [name |-> SomeName, category |-> 1], {}, TRUE)
    \/ \E actor \in Actors, id \in 1..FewTechs, uploads \in {{}, {"image"}} :
          /\ id \in DOMAIN techs => Len(techs[id].revisionHistory) <= FewRevisions
          /\ UpdateTechnique(actor, id, [description |-> <<"e">>], uploads, TRUE)
    \/ \E actor \in Actors, id \in 1..MaxTechs : DeleteTechnique(actor, id, TRUE)
    \/ \E actor \in Actors, id \in 1..MaxTechs : DuplicateTechnique(actor, id)

SpecPerm == InitPerm /\ [][NextPerm]_vars

Persisted == <<cats, nextCat, techs, nextTech, files>>

(* C17: an Update of a category, or an Update or Delete of a technique,      *)
(* requested by a user who is neither the entity's creator nor the admin is  *)
(* answered 403 and leaves the entity, its revision history and the stored   *)
(* blobs unchanged.                                                          *)
C17_StrangerIsRefused ==
    [][ LET a == res'.actor
            i == res'.id
            stranger(coll) ==
                a \in Users /\ a # "adm" /\ i \in DOMAIN coll /\ coll[i].createdBy # a
        IN  /\ (res'.op = "updateCategory" /\ stranger(cats)) =>
                  (res'.status = 403 /\ Persisted' = Persisted)
            /\ (res'.op \in {"updateTechnique", "deleteTechnique"} /\ stranger(techs)) =>
                  (res'.status = 403 /\ Persisted' = Persisted) ]_vars

(* editor ed2 sent an Update with an image part for a technique of ed1 that  *)
(* has a revision and references a stored image                              *)
C17_Witness ==
    /\ res.op = "updateTechnique"
    /\ res.actor = "ed2"
    /\ res.status = 403
    /\ res.parts = {"image"}
    /\ res.id \in DOMAIN techs
    /\ techs[res.id].createdBy = "ed1"
    /\ techs[res.id].revisionHistory # <<>>
    /\ techs[res.id].image \in files

(* C18: a category's active flag changes only through an Update made by the  *)
(* admin: whatever the patch of another caller's Update contains, isActive   *)
(* keeps its value.                                                          *)
C18_OnlyAdminSetsActive ==
    [][ \A c \in DOMAIN cats \cap DOMAIN cats' :
          cats'[c].isActive # cats[c].isActive =>
            (res'.op = "updateCategory" /\ res'.actor = "adm" /\ res'.id = c) ]_vars

(* the creator, an editor, sent isActive = false in an accepted Update and   *)
(* the category is still active                                              *)
C18_Witness ==
    /\ res.op = "updateCategory"
    /\ res.actor = "ed1"
    /\ res.status = 200
    /\ Has(res.patch, "isActive")
    /\ res.patch.isActive = FALSE
    /\ res.id \in DOMAIN cats
    /\ cats[res.id].isActive = TRUE
    /\ cats[res.id].description = res.patch.description

MutationOps ==
    {"createCategory", "updateCategory", "deleteCategory", "createTechnique",
     "updateTechnique", "deleteTechnique", "duplicateTechnique"}

(* C19: every category or technique mutation requested without a valid      *)
(* credential is answered 401, one requested by a viewer 403, and a category *)
(* delete requested by a non-admin user 403; in each case nothing persisted  *)
(* changes.                                                                  *)
C19_WritesNeedCredentialAndRole ==
    [][ res'.op \in MutationOps =>
          /\ res'.actor \notin Users => (res'.status = 401 /\ Persisted' = Persisted)
          /\ res'.actor = "vw" => (res'.status = 403 /\ Persisted' = Persisted)
          /\ (res'.op = "deleteCategory" /\ res'.actor \in Users \ {"adm"}) =>
                (res'.status = 403 /\ Persisted' = Persisted) ]_vars

(* a caller without credential asked to delete an existing technique *)
C19_Witness ==
    /\ res.op = "deleteTechnique"
    /\ res.actor = Anonymous
    /\ res.status = 401
    /\ res.id \in DOMAIN techs

----------------------------------------------------------------------------
(* SpecHier: the admin builds a tree, switches categories off and on and     *)
(* renumbers them, and the hierarchy is read                                 *)

HierCategoryPatches == { [isActive |-> FALSE], [isActive |-> TRUE], [order |-> 1] }

NextHier ==
    \/ \E body \in TreeCategoryBodies : CreateCategory("adm", body)
    \/ \E id \in 1..MaxCats, patch \in HierCategoryPatches :
          UpdateCategory("adm", id, patch)
    \/ GetCategoryHierarchy

SpecHier == Init /\ [][NextHier]_vars

Elems(seq) == {seq[i] : i \in 1..Len(seq)}

(* the nodes of the returned forest: the roots and everything under them *)
RECURSIVE Reach(_, _, _)
Reach(h, nodes, k) ==
    IF k = 0 THEN nodes
    ELSE Reach(h, nodes \cup UNION {Elems(h.children[p]) : p \in nodes}, k - 1)

InForest(h) == Reach(h, Elems(h.roots), Cardinality(DOMAIN h.children))

(* how many places of the returned forest hold c *)
Occurrences(h, c) ==
    Cardinality({i \in 1..Len(h.roots) : h.roots[i] = c})
    + Cardinality({pi \in InForest(h) \X (1..MaxCats) :
                     /\ pi[2] <= Len(h.children[pi[1]])
                     /\ h.children[pi[1]][pi[2]] = c})

(* C20: GetHierarchy returns a forest in which every active category appears *)
(* exactly once: as a root when it has no parent, and otherwise in the       *)
(* children list of its parent.                                              *)
C20_HierarchyHoldsEveryActive ==
    res.op = "getCategoryHierarchy" =>
      \A c \in DOMAIN cats :
         cats[c].isActive =>
           LET h == res.hierarchy
               parent == cats[c].parentCategory
           IN  /\ Occurrences(h, c) = 1
               /\ IF parent = NULL
                  THEN c \in Elems(h.roots)
                  ELSE /\ parent \in InForest(h)
                       /\ c \in Elems(h.children[parent])

----------------------------------------------------------------------------
(* SpecReparent: the admin builds a tree and sends updates that name a new    *)
(* parent together with a new name and a new description                     *)

ReparentPatches ==
    {[parentCategory |-> p, name |-> <<"B">>, description |-> <<"e">>] : p \in 1..MaxCats}

NextReparent ==
    \/ \E body \in TreeCategoryBodies : CreateCategory("adm", body)
    \/ \E id \in 1..MaxCats, patch \in ReparentPatches : UpdateCategory("adm", id, patch)
    \/ \E id \in 1..MaxCats : DeleteCategory("adm", id)

SpecReparent == Init /\ [][NextReparent]_vars

(* C22: a category Update whose new parent does not exist, or whose           *)
(* reparenting would create a cycle, is rejected and persists nothing: the    *)
(* parent and every other field named in the patch keep their persisted      *)
(* values.                                                                   *)
C22_RejectedReparentPersistsNothing ==
    [][ ( /\ res'.op = "updateCategory"
          /\ res'.id \in DOMAIN cats
          /\ authorizeMinRole(res'.actor, "editor") = 0
          /\ MayEdit(res'.actor, cats[res'.id])
          /\ Has(res'.patch, "parentCategory")
          /\ res'.patch.parentCategory # NULL
          /\ \/ res'.patch.parentCategory \notin DOMAIN cats
             \/ res'.patch.parentCategory = res'.id
             \/ res'.id \in Ancestors(cats, res'.patch.parentCategory) )
        => /\ res'.status = 400
           /\ res'.error = IF res'.patch.parentCategory \notin DOMAIN cats
                           THEN "Categoria padre no encontrada"
                           ELSE "Referencia circular"
           /\ cats' = cats ]_vars

(* an Update that also renamed the category was rejected for a cycle through *)
(* a grandchild, and the category still has its old name, description, slug  *)
(* and no parent                                                             *)
C22_Witness ==
    /\ res.op = "updateCategory" /\ res.error = "Referencia circular"
    /\ res.patch.name = <<"B">>
    /\ res.id \in DOMAIN cats
    /\ cats[res.id].name = SomeName /\ cats[res.id].description = SomeText
    /\ cats[res.id].slug = <<"a">>
    /\ cats[res.id].parentCategory = NULL
    /\ Cardinality(Ancestors(cats, res.patch.parentCategory)) = 2

----------------------------------------------------------------------------
(* SpecDelete: deleteTechnique followed await by await, one request at a     *)
(* time, with fs.unlink free to fail; techniques get their attachment paths *)
(* from requests that upload the files and from updates that name the paths *)

(* deleteTechnique between its awaits: `image` and `fileLocation` are the     *)
(* paths of the document findById(id) returned, `attempted` the paths handed *)
(* to deleteFile so far                                                      *)
DeleteRequest(pc, actor, id, image, fileLocation, attempted) ==
    [pc |-> pc, actor |-> actor, id |-> id, image |-> image,
     fileLocation |-> fileLocation, attempted |-> attempted]

DeleteReply(actor, id, status, error, attempted) ==
    [op |-> "deleteTechnique", actor |-> actor, id |-> id, patch |-> NoPatch,
     status |-> status, error |-> error, deps |-> NoDeps, attempted |-> attempted]

NoneInFlight == \A r \in Requests : reqs[r].pc = "idle"

AfterReleaseThrows(unlinkOk, next) == IF unlinkOk THEN next ELSE "failed"

(* where the handler continues after `await deleteFile(path)`: deleteFile    *)
(* catches the error of fs.unlink and logs it, so the handler goes on        *)
AfterRelease(unlinkOk, next) == next

(* deleteTechnique up to its first deleteFile: the route middleware, then    *)
(* Technique.findById(id) and the permission check                           *)
BeginDeleteTechnique(r, actor, id) ==
    /\ NoneInFlight
    /\ UNCHANGED <<cats, nextCat, techs, nextTech, files, nextFile, walk, login>>
    /\ LET gate == authorizeMinRole(actor, "editor")
           answer(status, error) ==
               /\ res' = DeleteReply(actor, id, status, error, {})
               /\ UNCHANGED reqs
       IN  IF gate # 0 THEN answer(gate, "route")
           ELSE IF id \notin DOMAIN techs THEN answer(404, "Tecnica no encontrada")
           ELSE IF Role(actor) # "admin" /\ techs[id].createdBy # actor
           THEN answer(403, "Sin permisos")
           ELSE /\ reqs' = [reqs EXCEPT ![r] =
                              DeleteRequest("image", actor, id, techs[id].image,
                                            techs[id].fileLocation, {})]
                /\ UNCHANGED res

(* the catch block of deleteTechnique *)
FailDelete(r) ==
    /\ res' = DeleteReply(reqs[r].actor, reqs[r].id, 500, "Error interno del servidor",
                          reqs[r].attempted)
    /\ reqs' = [reqs EXCEPT ![r] = IdleRequest]

(* if (technique.image) await deleteFile(technique.image) *)
ReleaseImage(r, unlinkOk) ==
    /\ reqs[r].pc = "image"
    /\ UNCHANGED <<cats, nextCat, techs, nextTech, nextFile, walk, login>>
    /\ LET q == reqs[r]
       IN  IF q.image = NULL
           THEN /\ reqs' = [reqs EXCEPT ![r].pc = "document"]
                /\ UNCHANGED <<files, res>>
           ELSE /\ files' = deleteFile(files, q.image, unlinkOk)
                /\ IF AfterRelease(unlinkOk, "document") = "failed"
                   THEN FailDelete(r)
                   ELSE /\ reqs' = [reqs EXCEPT ![r].pc = "document",
                                                ![r].attempted = @ \cup {q.image}]
                        /\ UNCHANGED res

(* if (technique.fileLocation) await deleteFile(technique.fileLocation) *)
ReleaseDocument(r, unlinkOk) ==
    /\ reqs[r].pc = "document"
    /\ UNCHANGED <<cats, nextCat, techs, nextTech, nextFile, walk, login>>
    /\ LET q == reqs[r]
       IN  IF q.fileLocation = NULL
           THEN /\ reqs' = [reqs EXCEPT ![r].pc = "remove"]
                /\ UNCHANGED <<files, res>>
           ELSE /\ files' = deleteFile(files, q.fileLocation, unlinkOk)
                /\ IF AfterRelease(unlinkOk, "remove") = "failed"
                   THEN FailDelete(r)
                   ELSE /\ reqs' = [reqs EXCEPT ![r].pc = "remove",
                                                ![r].attempted = @ \cup {q.fileLocation}]
                        /\ UNCHANGED res

(* await Technique.findByIdAndDelete(id), then the 200 response *)
RemoveTechnique(r) ==
    /\ reqs[r].pc = "remove"
    /\ UNCHANGED <<cats, nextCat, nextTech, files, nextFile, walk, login>>
    /\ techs' = [t \in DOMAIN techs \ {reqs[r].id} |-> techs[t]]
    /\ res' = DeleteReply(reqs[r].actor, reqs[r].id, 200, "", reqs[r].attempted)
    /\ reqs' = [reqs EXCEPT ![r] = IdleRequest]

DeleteBodies == { [name |-> SomeName, description |-> SomeText, category |-> 1] }

DeletePatches == { [image |-> 1], [image |-> 1, fileLocation |-> 2] }

DeleteActors == {"adm", "ed1", "ed2"}

NextDelete ==
    \/ \E body \in DeleteBodies, uploads \in { {}, {"image", "document"} } :
          NoneInFlight /\ CreateTechnique("ed1", body, uploads, TRUE)
    \/ \E id \in 1..MaxTechs, patch \in DeletePatches :
          /\ NoneInFlight
          /\ id \in DOMAIN techs => Len(techs[id].revisionHistory) < FewRevisions
          /\ UpdateTechnique("ed1", id, patch, {}, TRUE)
    \/ \E actor \in DeleteActors, id \in 1..MaxTechs : BeginDeleteTechnique("r1", actor, id)
    \/ \E unlinkOk \in BOOLEAN : ReleaseImage("r1", unlinkOk)
    \/ \E unlinkOk \in BOOLEAN : ReleaseDocument("r1", unlinkOk)
    \/ RemoveTechnique("r1")

SpecDelete == InitTech /\ [][NextDelete]_vars

(* C23: technique Delete by its creator or an admin attempts the release of  *)
(* the image and document blobs (when present) before it removes the        *)
(* entity, and removes the entity even when a release fails: a technique    *)
(* leaves the collection only in the last step of a Delete that has handed  *)
(* both of its paths to the release, and a Delete past its permission check *)
(* ends only in that step, answered 200.                                    *)
C23_ReleaseThenRemove ==
    [][ /\ \A id \in DOMAIN techs \ DOMAIN techs' :
              \E r \in Requests :
                 /\ reqs[r].pc = "remove" /\ reqs[r].id = id
                 /\ ({techs[id].image, techs[id].fileLocation} \ {NULL})
                       \subseteq reqs[r].attempted
        /\ \A r \in Requests :
              (reqs[r].pc \in {"image", "document", "remove"} /\ reqs'[r].pc = "idle")
              => /\ reqs[r].pc = "remove"
                 /\ res'.op = "deleteTechnique" /\ res'.status = 200
                 /\ res'.id = reqs[r].id
                 /\ res'.id \notin DOMAIN techs' ]_vars

(* a Delete by the creator was answered 200 and removed the technique after *)
(* both releases were attempted and the release of the image failed         *)
C23_Witness ==
    /\ res.op = "deleteTechnique" /\ res.status = 200 /\ res.actor = "ed1"
    /\ res.attempted = {1, 2}
    /\ res.id \notin DOMAIN techs
    /\ 1 \in files /\ 2 \notin files

----------------------------------------------------------------------------
(* SpecSame: updates whose patch repeats values the technique may already    *)
(* hold, among them a tag list and a category reference                      *)

SameBodies ==
    { [name |-> SomeName, description |-> SomeText, category |-> 1, tags |-> <<"x">>] }

SamePatches ==
    { [description |-> SomeText],
      [description |-> <<"e">>],
      [tags |-> <<"x">>],
      [category |-> 1],
      [description |-> SomeText, tags |-> <<"x">>, category |-> 1] }

NextSame ==
    \/ \E body \in SameBodies : nextTech <= FewTechs /\ CreateTechnique("ed1", body, {}, TRUE)
    \/ \E actor \in TechActors, id \in 1..FewTechs, patch \in SamePatches :
          UpdateTechnique(actor, id, patch, {}, TRUE)
    \/ \E id \in 1..FewTechs : DeleteTechnique("ed1", id, TRUE)

SpecSame == InitTech /\ [][NextSame]_vars

(* C24: a technique Update whose patch gives every named field the value the *)
(* technique already holds, list-valued and reference-valued fields          *)
(* included, appends no revision entry and leaves the version unchanged.     *)
C24_NoChangeNoRevision ==
    [][ ( /\ res'.op = "updateTechnique" /\ res'.status = 200
          /\ res'.id \in DOMAIN techs
          /\ \A f \in DOMAIN res'.patch : techs[res'.id][f] = res'.patch[f] )
        => /\ techs'[res'.id].revisionHistory = techs[res'.id].revisionHistory
           /\ techs'[res'.id].version = techs[res'.id].version ]_vars

----------------------------------------------------------------------------
(* SpecPad: addRevision applied to a technique whose version is any short    *)
(* string of digits and dots.  The repository holds two Technique models:   *)
(* the one the handlers above follow and the one appended to               *)
(* categoryController.js; SpecPad applies the addRevision of either.        *)

(* newVersion of the other model's addRevision: split, map(Number),          *)
(* parts[1]++ with no padding, join; undefined++ is NaN                      *)
NextVersionUnpadded(version) ==
    LET v == IF version = <<>> THEN DefaultVersion ELSE version
        parts == [i \in 1..Len(split(v)) |-> Number(split(v)[i])]
    IN  IF Len(parts) < 2 THEN join(Append(parts, NaN))
        ELSE join([parts EXCEPT ![2] = Increment(@)])

(* the other model's technique.addRevision(changes, userId) *)
addRevisionUnpadded(t, changes, userId) ==
    LET newVersion == NextVersionUnpadded(t.version)
    IN  [t EXCEPT
           !.revisionHistory = Append(@, [version |-> newVersion,
                                          changes |-> changes,
                                          changedBy |-> userId]),
           !.version = newVersion,
           !.lastModifiedBy = userId]

MaxVersionLen == 3

VersionChars == {"1", "2", "9", "."}

VersionStrings ==
    UNION {[1..n -> VersionChars] : n \in 1..MaxVersionLen}

TechniqueModels == {"simplified", "appended"}

VersionedTechnique(version) ==
    [name |-> SomeName, description |-> SomeText, category |-> 1, mitreid |-> <<>>,
     image |-> NULL, fileLocation |-> NULL, tags |-> <<>>, version |-> version,
     revisionHistory |-> <<>>, status |-> "Draft", createdBy |-> "ed1",
     lastModifiedBy |-> NoUser]

InitPad ==
    /\ cats = (1 :> [name |-> SomeName, slug |-> <<"a">>, description |-> SomeText,
                     parentCategory |-> NULL, order |-> 0, isActive |-> TRUE,
                     createdBy |-> "adm"])
    /\ nextCat = 2
    /\ \E version \in VersionStrings : techs = (1 :> VersionedTechnique(version))
    /\ nextTech = 2
    /\ files = {}
    /\ nextFile = 1
    /\ res = NoResponse
    /\ reqs = [r \in Requests |-> IdleRequest]
    /\ walk = IdleWalk
    /\ login = InitialLogin

(* technique.addRevision(changes, userId) of the model `model`, once *)
AddRevision(model, id, userId) ==
    /\ techs[id].revisionHistory = <<>>
    /\ techs' = [techs EXCEPT ![id] =
                    IF model = "simplified"
                    THEN addRevision(techs[id], {"description"}, userId)
                    ELSE addRevisionUnpadded(techs[id], {"description"}, userId)]
    /\ res' = Reply("addRevision", userId, id, [model |-> model], 0, "", NoDeps)
    /\ UNCHANGED <<cats, nextCat, nextTech, files, nextFile, reqs, walk, login>>

NextPad == \E model \in TechniqueModels : AddRevision(model, 1, "ed1")

SpecPad == InitPad /\ [][NextPad]_vars

(* C25: when the current version has fewer than two dot-separated components *)
(* (for example "2"), recording a revision treats the missing minor         *)
(* component as 0 before incrementing: the new version and the appended     *)
(* entry's version are "2.1".                                               *)
C25_MissingMinorIsZero ==
    [][ (res'.op = "addRevision" /\ IsNumeral(techs[res'.id].version))
        => LET expected == NumToStr(IntOf(techs[res'.id].version)) \o <<".", "1">>
               history == techs'[res'.id].revisionHistory
           IN  /\ techs'[res'.id].version = expected
               /\ Len(history) = 1
               /\ history[1].version = expected ]_vars

----------------------------------------------------------------------------
(* SpecRefs: every write route of categories and techniques, one request at  *)
(* a time, with bodies that name categories present and absent              *)

RefTechniquePatches == {[category |-> c] : c \in 0..MaxCats}

NextRefs ==
    \/ \E body \in TreeCategoryBodies : CreateCategory("adm", body)
    \/ \E id \in 1..MaxCats, patch \in TreeCategoryPatches : UpdateCategory("adm", id, patch)
    \/ \E id \in 1..MaxCats : DeleteCategory("adm", id)
    \/ \E body \in TreeTechniqueBodies :
          nextTech <= FewTechs /\ CreateTechnique("adm", body, {}, TRUE)
    \/ \E id \in 1..MaxTechs, patch \in RefTechniquePatches :
          /\ id \in DOMAIN techs => Len(techs[id].revisionHistory) < FewRevisions
          /\ UpdateTechnique("adm", id, patch, {}, TRUE)
    \/ \E id \in 1..MaxTechs : DuplicateTechnique("adm", id)
    \/ \E id \in 1..MaxTechs : DeleteTechnique("adm", id, TRUE)

SpecRefs == Init /\ [][NextRefs]_vars

(* C26: after any sequence of completed category and technique operations   *)
(* every non-null parentCategory of a category and every category reference *)
(* of a technique identifies a category that exists.                        *)
C26_ReferencesResolve ==
    /\ \A c \in DOMAIN cats :
          cats[c].parentCategory # NULL => cats[c].parentCategory \in DOMAIN cats
    /\ \A t \in DOMAIN techs :
          techs[t].category # NULL => techs[t].category \in DOMAIN cats

(* a category was deleted after the technique that referenced it had been   *)
(* moved to another category, while a child category and a duplicate exist  *)
C26_Witness ==
    /\ res.op = "deleteCategory" /\ res.status = 200
    /\ \E c \in DOMAIN cats : cats[c].parentCategory # NULL
    /\ \E t \in DOMAIN techs :
          /\ "category" \in UNION {techs[t].revisionHistory[i].changes :
                                      i \in 1..Len(techs[t].revisionHistory)}
          /\ techs[t].category \in DOMAIN cats
          /\ techs[t].category # res.id
    /\ Cardinality(DOMAIN techs) = 2

----------------------------------------------------------------------------
(* SpecRace: deleteCategory, createCategory and createTechnique by the admin, *)
(* two requests at a time, each split at its awaits                          *)

(* a request between its awaits: `id` is the category it deletes or names as *)
(* parent or category, the counts are what countDocuments returned          *)
RaceRequest(pc, id, subcategories) ==
    [pc |-> pc, id |-> id, subcategories |-> subcategories]

InFlight(pcs) == Cardinality({r \in Requests : reqs[r].pc \in pcs})

RaceAnswer(r, op, id, patch, status, error, deps) ==
    /\ res' = Reply(op, "adm", id, patch, status, error, deps)
    /\ reqs' = [reqs EXCEPT ![r] = IdleRequest]

(* deleteCategory up to countDocuments: findById(id) and the role check *)
BeginDeleteCategory(r, id) ==
    /\ reqs[r].pc = "idle"
    /\ UNCHANGED <<cats, nextCat, techs, nextTech, files, nextFile, walk, login>>
    /\ IF id \notin DOMAIN cats
       THEN RaceAnswer(r, "deleteCategory", id, NoPatch, 404, "Categoria no encontrada",
                       NoDeps)
       ELSE /\ reqs' = [reqs EXCEPT ![r] = RaceRequest("countSubcategories", id, 0)]
            /\ UNCHANGED res

(* await Category.countDocuments({ parentCategory: id }) *)
CountSubcategoriesStep(r) ==
    /\ reqs[r].pc = "countSubcategories"
    /\ UNCHANGED <<cats, nextCat, techs, nextTech, files, nextFile, walk, login, res>>
    /\ reqs' = [reqs EXCEPT ![r] =
                   RaceRequest("countTechniques", reqs[r].id,
                               CountSubcategories(cats, reqs[r].id))]

(* await Technique.countDocuments({ category: id }), then the two tests *)
CountTechniquesStep(r) ==
    /\ reqs[r].pc = "countTechniques"
    /\ UNCHANGED <<cats, nextCat, techs, nextTech, files, nextFile, walk, login>>
    /\ LET id == reqs[r].id
           subcategories == reqs[r].subcategories
           techniques == CountTechniques(techs, id)
       IN  IF subcategories > 0
           THEN RaceAnswer(r, "deleteCategory", id, NoPatch, 400,
                           "Categoria con dependencias",
                           [kind |-> "subcategories", n |-> subcategories])
           ELSE IF techniques > 0
           THEN RaceAnswer(r, "deleteCategory", id, NoPatch, 400,
                           "Categoria con dependencias",
                           [kind |-> "techniques", n |-> techniques])
           ELSE /\ reqs' = [reqs EXCEPT ![r].pc = "removeCategory"]
                /\ UNCHANGED res

(* await Category.findByIdAndDelete(id), then the 200 response *)
RemoveCategory(r) ==
    /\ reqs[r].pc = "removeCategory"
    /\ UNCHANGED <<nextCat, techs, nextTech, files, nextFile, walk, login>>
    /\ cats' = [c \in DOMAIN cats \ {reqs[r].id} |-> cats[c]]
    /\ RaceAnswer(r, "deleteCategory", reqs[r].id, NoPatch, 200, "", NoDeps)

(* createCategory with a parent, up to save(): findById(parentCategory) *)
BeginCreateCategory(r, parentCategory) ==
    /\ reqs[r].pc = "idle"
    /\ nextCat + InFlight({"insertCategory"}) <= MaxCats
    /\ UNCHANGED <<cats, nextCat, techs, nextTech, files, nextFile, walk, login>>
    /\ IF parentCategory \notin DOMAIN cats
       THEN RaceAnswer(r, "createCategory", NULL,
                       [name |-> SomeName, description |-> SomeText,
                        parentCategory |-> parentCategory],
                       400, "Categoria padre no encontrada", NoDeps)
       ELSE /\ reqs' = [reqs EXCEPT ![r] = RaceRequest("insertCategory", parentCategory, 0)]
            /\ UNCHANGED res

(* category.save() of createCategory: the hooks (validateParent finds no     *)
(* cycle from a parent that is absent), the insert, the 201 response        *)
InsertCategory(r) ==
    /\ reqs[r].pc = "insertCategory"
    /\ UNCHANGED <<techs, nextTech, files, nextFile, walk, login>>
    /\ LET body == [name |-> SomeName, description |-> SomeText,
                    parentCategory |-> reqs[r].id]
           d == [name |-> SomeName, slug |-> <<>>, description |-> SomeText,
                 parentCategory |-> reqs[r].id, order |-> 0, isActive |-> TRUE,
                 createdBy |-> "adm"]
           s == CategorySave(cats, nextCat, d, TRUE, TRUE)
       IN  IF s.ok
           THEN /\ cats' = cats @@ (nextCat :> s.doc)
                /\ nextCat' = nextCat + 1
                /\ RaceAnswer(r, "createCategory", nextCat, body, 201, "", NoDeps)
           ELSE /\ UNCHANGED <<cats, nextCat>>
                /\ RaceAnswer(r, "createCategory", NULL, body, 500,
                              "Error interno del servidor", NoDeps)

(* createTechnique up to save(): Category.findById(category) *)
BeginCreateTechnique(r, category) ==
    /\ reqs[r].pc = "idle"
    /\ nextTech + InFlight({"insertTechnique"}) <= MaxTechs
    /\ UNCHANGED <<cats, nextCat, techs, nextTech, files, nextFile, walk, login>>
    /\ IF category \notin DOMAIN cats
       THEN RaceAnswer(r, "createTechnique", NULL,
                       [name |-> SomeName, description |-> SomeText, category |-> category],
                       400, "Categoria no encontrada", NoDeps)
       ELSE /\ reqs' = [reqs EXCEPT ![r] = RaceRequest("insertTechnique", category, 0)]
            /\ UNCHANGED res

(* technique.save() of createTechnique and the 201 response *)
InsertTechnique(r) ==
    /\ reqs[r].pc = "insertTechnique"
    /\ UNCHANGED <<cats, nextCat, files, nextFile, walk, login>>
    /\ techs' = techs @@
          (nextTech :> [name |-> SomeName, description |-> SomeText,
                        category |-> reqs[r].id, mitreid |-> <<>>, image |-> NULL,
                        fileLocation |-> NULL, tags |-> <<>>, version |-> DefaultVersion,
                        revisionHistory |-> <<>>, status |-> "Draft",
                        createdBy |-> "adm", lastModifiedBy |-> NoUser])
    /\ nextTech' = nextTech + 1
    /\ RaceAnswer(r, "createTechnique", nextTech,
                  [name |-> SomeName, description |-> SomeText, category |-> reqs[r].id],
                  201, "", NoDeps)

NextRace ==
    \/ \E r \in Requests, id \in 1..MaxCats : BeginDeleteCategory(r, id)
    \/ \E r \in Requests : CountSubcategoriesStep(r)
    \/ \E r \in Requests : CountTechniquesStep(r)
    \/ \E r \in Requests : RemoveCategory(r)
    \/ \E r \in Requests, parentCategory \in 1..MaxCats : BeginCreateCategory(r, parentCategory)
    \/ \E r \in Requests : InsertCategory(r)
    \/ \E r \in Requests, category \in 1..MaxCats : BeginCreateTechnique(r, category)
    \/ \E r \in Requests : InsertTechnique(r)

SpecRace == InitTech /\ [][NextRace]_vars

(* C27: while a category Delete interleaves with a concurrent Create of a    *)
(* child category or of a technique naming that category, no reachable      *)
(* state contains a category or a technique that references a removed       *)
(* category.                                                                *)
C27_NoReferenceToRemoved ==
    ({cats[c].parentCategory : c \in DOMAIN cats} \cup {techs[t].category : t \in DOMAIN techs})
       \subseteq (DOMAIN cats \cup {NULL})

----------------------------------------------------------------------------
(* SpecOwner: updates of a category and of a technique whose bodies name      *)
(* createdBy among their fields                                              *)

OwnerCategoryPatches ==
    { [description |-> <<"e">>], [createdBy |-> "ed2", description |-> <<"e">>] }

OwnerTechniquePatches ==
    { [description |-> <<"e">>], [createdBy |-> "ed2"],
      [createdBy |-> "ed2", description |-> SomeText] }

OwnerActors == {"adm", "ed1", "ed2"}

NextOwner ==
    \/ \E body \in TreeCategoryBodies : CreateCategory("ed1", body)
    \/ \E actor \in OwnerActors, id \in 1..MaxCats, patch \in OwnerCategoryPatches :
          UpdateCategory(actor, id, patch)
    \/ \E body \in TreeTechniqueBodies :
          nextTech <= FewTechs /\ CreateTechnique("ed1", body, {}, TRUE)
    \/ \E actor \in OwnerActors, id \in 1..FewTechs, patch \in OwnerTechniquePatches :
          /\ id \in DOMAIN techs => Len(techs[id].revisionHistory) < FewRevisions
          /\ UpdateTechnique(actor, id, patch, {}, TRUE)

SpecOwner == Init /\ [][NextOwner]_vars

(* C28: no Update of a category or of a technique changes its creator        *)
(* reference: createdBy after the Update equals createdBy before it,        *)
(* whatever fields the patch contains.                                      *)
C28_UpdateKeepsCreator ==
    [][ /\ (res'.op = "updateCategory" /\ res'.id \in DOMAIN cats)
           => cats'[res'.id].createdBy = cats[res'.id].createdBy
        /\ (res'.op = "updateTechnique" /\ res'.id \in DOMAIN techs)
           => techs'[res'.id].createdBy = techs[res'.id].createdBy ]_vars

----------------------------------------------------------------------------
(* SpecLogin: login attempts on one active account with right and wrong      *)
(* passwords, while the clock advances                                       *)

(* the clock counts hours; the lock lasts 2 * 60 * 60 * 1000 ms *)
LockHours == 2

(* `this.loginAttempts + 1 >= 5` *)
LockThreshold == 5

MaxTime == 5

(* the virtual isLocked *)
isLocked(user, now) == user.lockUntil # NULL /\ user.lockUntil > now

(* user.incLoginAttempts(): $unset of both fields when an earlier lock has   *)
(* expired, else $inc and, from the threshold on, $set of lockUntil          *)
incLoginAttempts(user, now) ==
    IF user.lockUntil # NULL /\ user.lockUntil < now
    THEN [user EXCEPT !.loginAttempts = 0, !.lockUntil = NULL]
    ELSE [user EXCEPT
            !.loginAttempts = @ + 1,
            !.lockUntil = IF user.loginAttempts + 1 >= LockThreshold /\ ~isLocked(user, now)
                          THEN now + LockHours ELSE @]

(* user.resetLoginAttempts() *)
resetLoginAttempts(user) == [user EXCEPT !.loginAttempts = 0, !.lockUntil = NULL]

LoginReply(password, status, error, token) ==
    [op |-> "login", actor |-> "ed1", id |-> NULL, patch |-> [password |-> password],
     status |-> status, error |-> error, deps |-> NoDeps, token |-> token]

(* the latest LockThreshold attempts of the current run of wrong passwords *)
Latest(run) ==
    IF Len(run) > LockThreshold THEN SubSeq(run, Len(run) - LockThreshold + 1, Len(run))
    ELSE run

(* login for the account, with the right or a wrong password *)
Login(password) ==
    /\ UNCHANGED <<cats, nextCat, techs, nextTech, files, nextFile, reqs, walk>>
    /\ LET user == login.user
           now == login.now
           after == IF isLocked(user, now) \/ ~user.isActive THEN user
                    ELSE IF password # "right" THEN incLoginAttempts(user, now)
                    ELSE resetLoginAttempts(user)
           attempt == [lockedBefore |-> isLocked(user, now),
                       lockedAfter |-> isLocked(after, now)]
       IN  /\ login' = [login EXCEPT
                          !.user = after,
                          !.run = IF password # "right" THEN Latest(Append(@, attempt))
                                  ELSE IF isLocked(user, now) \/ ~user.isActive THEN @
                                  ELSE <<>>]
           /\ res' = IF isLocked(user, now)
                     THEN LoginReply(password, 423, "Cuenta bloqueada", FALSE)
                     ELSE IF ~user.isActive
                     THEN LoginReply(password, 401, "Cuenta desactivada", FALSE)
                     ELSE IF password # "right"
                     THEN LoginReply(password, 401, "Credenciales invalidas", FALSE)
                     ELSE LoginReply(password, 200, "", TRUE)

(* an hour passes *)
Tick ==
    /\ login.now < MaxTime
    /\ login' = [login EXCEPT !.now = @ + 1]
    /\ UNCHANGED <<cats, nextCat, techs, nextTech, files, nextFile, res, reqs, walk>>

NextLogin ==
    \/ \E password \in {"right", "wrong"} : Login(password)
    \/ Tick

SpecLogin == Init /\ [][NextLogin]_vars

(* C29: five consecutive failed password attempts on an unlocked account,    *)
(* with no successful login in between, lock the account; while the account  *)
(* is locked every login attempt, the right password included, is refused    *)
(* with 423, issues no token and leaves the attempt counter alone; and a     *)
(* successful login on an unlocked account resets the counter.               *)
C29_LockAfterFiveFailures ==
    [][ /\ ( /\ Len(login'.run) = LockThreshold
             /\ login'.run # login.run
             /\ ~login'.run[1].lockedBefore )
           => \E i \in 1..LockThreshold : login'.run[i].lockedAfter
        /\ (res'.op = "login" /\ login'.now = login.now /\ isLocked(login.user, login.now))
           => /\ res'.status = 423 /\ ~res'.token
              /\ login'.user = login.user
        /\ ( /\ res'.op = "login" /\ login'.now = login.now
             /\ ~isLocked(login.user, login.now)
             /\ res'.patch.password = "right" )
           => /\ res'.status = 200 /\ res'.token
              /\ login'.user.loginAttempts = 0 ]_vars

----------------------------------------------------------------------------
(* SpecEdit: two updateTechnique requests by the creator of one technique,    *)
(* each split between Technique.findById and technique.save()                *)

(* updateTechnique between findById and save(): `loaded` is the document      *)
(* findById returned, `doc` the same document after Object.assign and        *)
(* addRevision                                                               *)
EditRequest(actor, id, patch, loaded, doc) ==
    [pc |-> "saveTechnique", actor |-> actor, id |-> id, patch |-> patch,
     loaded |-> loaded, doc |-> doc]

(* what save() writes for a loaded document: $set of the paths whose value   *)
(* changed since it was loaded, $push of the entries added to revisionHistory *)
SaveDelta(stored, loaded, doc) ==
    [f \in DOMAIN stored |->
        IF f = "revisionHistory"
        THEN stored[f] \o SubSeq(doc[f], Len(loaded[f]) + 1, Len(doc[f]))
        ELSE IF doc[f] # loaded[f] THEN doc[f]
        ELSE stored[f]]

EditAnswer(r, actor, id, patch, status, error) ==
    /\ res' = PartsReply("updateTechnique", actor, id, patch, {}, status, error)
    /\ reqs' = [reqs EXCEPT ![r] = IdleRequest]

(* updateTechnique up to save(): findById, the permission check, the change  *)
(* list, Object.assign and addRevision on the loaded document                *)
BeginUpdateTechnique(r, actor, id, patch) ==
    /\ reqs[r].pc = "idle"
    /\ id \in DOMAIN techs =>
          Len(techs[id].revisionHistory) + InFlight({"saveTechnique"}) < MaxRevisions
    /\ UNCHANGED <<cats, nextCat, techs, nextTech, files, nextFile, walk, login>>
    /\ IF authorizeMinRole(actor, "editor") # 0
       THEN EditAnswer(r, actor, id, patch, authorizeMinRole(actor, "editor"), "route")
       ELSE IF id \notin DOMAIN techs
       THEN EditAnswer(r, actor, id, patch, 404, "Tecnica no encontrada")
       ELSE IF Role(actor) # "admin" /\ techs[id].createdBy # actor
       THEN EditAnswer(r, actor, id, patch, 403, "Sin permisos")
       ELSE LET technique == techs[id]
                changes == {f \in DOMAIN patch : FieldDiffers(technique, patch, {}, f)}
                assigned == [AssignTechnique(technique, patch)
                                EXCEPT !.lastModifiedBy = actor]
                d == IF changes # {} THEN addRevision(assigned, changes, actor)
                     ELSE assigned
            IN  /\ reqs' = [reqs EXCEPT ![r] = EditRequest(actor, id, patch, technique, d)]
                /\ UNCHANGED res

(* await technique.save(), then the 200 response *)
SaveTechnique(r) ==
    /\ reqs[r].pc = "saveTechnique"
    /\ UNCHANGED <<cats, nextCat, nextTech, files, nextFile, walk, login>>
    /\ LET q == reqs[r]
       IN  IF q.id \notin DOMAIN techs \/ ~TechniqueValid(q.doc)
           THEN /\ UNCHANGED techs
                /\ EditAnswer(r, q.actor, q.id, q.patch, 500, "Error interno del servidor")
           ELSE /\ techs' = [techs EXCEPT ![q.id] = SaveDelta(techs[q.id], q.loaded, q.doc)]
                /\ EditAnswer(r, q.actor, q.id, q.patch, 200, "")

EditPatches == { [description |-> <<"e">>], [description |-> SomeText], [status |-> "Review"] }

EditActors == {"ed1", "ed2"}

NextEdit ==
    \/ \E body \in DeleteBodies :
          nextTech <= FewTechs /\ NoneInFlight /\ CreateTechnique("ed1", body, {}, TRUE)
    \/ \E r \in Requests, actor \in EditActors, id \in 1..MaxTechs, patch \in EditPatches :
          BeginUpdateTechnique(r, actor, id, patch)
    \/ \E r \in Requests : SaveTechnique(r)

SpecEdit == InitTech /\ [][NextEdit]_vars

(* C30: every entry in a technique's revision history records a version      *)
(* strictly greater than the entry before it, also when two Updates of the  *)
(* same technique interleave their read of the technique and their write.   *)
C30_HistoryVersionsIncrease ==
    \A t \in DOMAIN techs :
       \A i \in 1..(Len(techs[t].revisionHistory) - 1) :
          VersionLess(techs[t].revisionHistory[i].version,
                      techs[t].revisionHistory[i + 1].version)

----------------------------------------------------------------------------
(* SpecConc: two updateCategory requests that change a parent, and one       *)
(* getCategoryById, interleaved at their awaits over ConcCats root categories *)

ConcCats == 2

InitConc ==
    /\ cats = [c \in 1..ConcCats |->
                 [name |-> SomeName,
                  slug |-> IF c = 1 THEN <<"a">> ELSE Suffixed(<<"a">>, c - 1),
                  description |-> SomeText, parentCategory |-> NULL, order |-> 0,
                  isActive |-> TRUE, createdBy |-> "adm"]]
    /\ nextCat = ConcCats + 1
    /\ techs = <<>>
    /\ nextTech = 1
    /\ files = {}
    /\ nextFile = 1
    /\ res = NoResponse
    /\ reqs = [r \in Requests |-> IdleRequest]
    /\ walk = IdleWalk
    /\ login = InitialLogin

Store == <<cats, nextCat, techs, nextTech, files, nextFile>>

Finish(r, status, error) ==
    /\ res' = Reply("updateCategory", reqs[r].actor, reqs[r].id,
                    [parentCategory |-> reqs[r].parentCategory], status, error, NoDeps)
    /\ reqs' = [reqs EXCEPT ![r] = IdleRequest]

(* updateCategory up to its first await: the route middleware, then          *)
(* Category.findById(id) and the permission check                            *)
BeginUpdate(r, actor, id, parentCategory) ==
    /\ reqs[r].pc = "idle"
    /\ UNCHANGED <<Store, walk, login>>
    /\ LET gate == authorizeMinRole(actor, "editor")
           answer(status, error) ==
               /\ res' = Reply("updateCategory", actor, id,
                               [parentCategory |-> parentCategory], status, error, NoDeps)
               /\ UNCHANGED reqs
       IN  IF gate # 0 THEN answer(gate, "route")
           ELSE IF id \notin DOMAIN cats THEN answer(404, "Categoria no encontrada")
           ELSE IF Role(actor) # "admin" /\ cats[id].createdBy # actor
           THEN answer(403, "Sin permisos")
           ELSE /\ reqs' = [reqs EXCEPT ![r] =
                              [IdleRequest EXCEPT
                                 !.pc = IF parentCategory = NULL THEN "save" ELSE "parentExists",
                                 !.actor = actor, !.id = id,
                                 !.parentCategory = parentCategory,
                                 !.loaded = cats[id].parentCategory]]
                /\ UNCHANGED res

(* await Category.findById(parentCategory): 400 when the parent is absent *)
ParentExists(r) ==
    /\ reqs[r].pc = "parentExists"
    /\ UNCHANGED <<Store, walk, login>>
    /\ IF reqs[r].parentCategory \notin DOMAIN cats
       THEN Finish(r, 400, "Categoria padre no encontrada")
       ELSE /\ reqs' = [reqs EXCEPT ![r].pc = "save"]
            /\ UNCHANGED res

(* category.save() up to validateParent's first findById(this.parentCategory) *)
BeginSave(r) ==
    /\ reqs[r].pc = "save"
    /\ UNCHANGED <<Store, walk, login, res>>
    /\ LET q == reqs[r]
           p == q.parentCategory
       IN  IF p = q.loaded \/ p = NULL
           THEN reqs' = [reqs EXCEPT ![r].pc = "write"]
           ELSE IF p \notin DOMAIN cats
           THEN reqs' = [reqs EXCEPT ![r].pc = "write"]
           ELSE reqs' = [reqs EXCEPT ![r].pc = "walk", ![r].current = p,
                                     ![r].currentParent = cats[p].parentCategory,
                                     ![r].visited = {q.id}]

(* one turn of validateParent's while loop, up to its findById *)
WalkParent(r) ==
    /\ reqs[r].pc = "walk"
    /\ UNCHANGED <<Store, walk, login>>
    /\ LET q == reqs[r]
       IN  IF q.current \in q.visited
           THEN Finish(r, 400, "Referencia circular")
           ELSE /\ UNCHANGED res
                /\ IF q.currentParent = NULL \/ q.currentParent \notin DOMAIN cats
                   THEN reqs' = [reqs EXCEPT ![r].pc = "write",
                                             ![r].visited = q.visited \cup {q.current}]
                   ELSE reqs' = [reqs EXCEPT
                                   ![r].visited = q.visited \cup {q.current},
                                   ![r].current = q.currentParent,
                                   ![r].currentParent = cats[q.currentParent].parentCategory]

(* the write of save(): $set of the modified path, then the 200 response *)
WriteParent(r) ==
    /\ reqs[r].pc = "write"
    /\ UNCHANGED <<nextCat, techs, nextTech, files, nextFile, login>>
    /\ LET q == reqs[r]
       IN  /\ cats' = IF q.id \in DOMAIN cats /\ q.parentCategory # q.loaded
                      THEN [cats EXCEPT ![q.id].parentCategory = q.parentCategory]
                      ELSE cats
           /\ walk' = IF walk.pc = "walking" /\ cats' # cats
                      THEN [walk EXCEPT !.stable = FALSE] ELSE walk
           /\ Finish(r, 200, "")

(* getCategoryById up to getFullPath's loop: findById(id), path = [this.name] *)
BeginFullPath(id) ==
    /\ walk.pc = "idle"
    /\ UNCHANGED <<Store, reqs, login>>
    /\ IF id \notin DOMAIN cats
       THEN /\ res' = Reply("getCategoryById", Anonymous, id, NoPatch, 404,
                            "Categoria no encontrada", NoDeps)
            /\ UNCHANGED walk
       ELSE /\ walk' = [pc |-> "walking", current |-> id,
                        currentParent |-> cats[id].parentCategory,
                        visits |-> 1, stable |-> TRUE]
            /\ UNCHANGED res

(* one turn of getFullPath's while (current.parentCategory) loop; the loop   *)
(* has no bound of its own, the model follows it one visit past the number  *)
(* of categories                                                            *)
StepFullPath ==
    /\ walk.pc = "walking"
    /\ walk.visits <= Cardinality(DOMAIN cats)
    /\ UNCHANGED <<Store, reqs, login>>
    /\ IF walk.currentParent = NULL \/ walk.currentParent \notin DOMAIN cats
       THEN /\ walk' = IdleWalk
            /\ res' = Reply("getCategoryById", Anonymous, walk.current, NoPatch, 200,
                            "", NoDeps)
       ELSE /\ walk' = [walk EXCEPT
                          !.current = walk.currentParent,
                          !.currentParent = cats[walk.currentParent].parentCategory,
                          !.visits = walk.visits + 1]
            /\ UNCHANGED res

NextConc ==
    \/ \E r \in Requests, id \in 1..ConcCats, p \in 0..ConcCats :
          BeginUpdate(r, "adm", id, p)
    \/ \E r \in Requests : ParentExists(r)
    \/ \E r \in Requests : BeginSave(r)
    \/ \E r \in Requests : WalkParent(r)
    \/ \E r \in Requests : WriteParent(r)
    \/ \E id \in 1..ConcCats : BeginFullPath(id)
    \/ StepFullPath

SpecConc == InitConc /\ [][NextConc]_vars

(* C2: while two category Updates that each change a parent interleave their *)
(* validation reads and their saves, no reachable state has a cycle in the  *)
(* parent relation.                                                         *)
C2_NoCycleConcurrent == Acyclic(cats)

(* C4: over a parent relation that no write changes meanwhile, GetFullPath   *)
(* visits at most as many nodes as there are categories.                    *)
C4_FullPathBounded ==
    (walk.pc = "walking" /\ walk.stable) => walk.visits <= Cardinality(DOMAIN cats)

====
